---- MODULE Spec2Model ----
(***************************************************************************)
(* msimg: the failover orchestrator generate_image (generator.py), the     *)
(* task protocol driver _generate_image_single (generator.py), and the     *)
(* selector / notification / upload managers (callbacks.py), as one state  *)
(* machine.  One generate_image call is followed from its arguments to its *)
(* return value or to the exception that ends it.                          *)
(***************************************************************************)
EXTENDS Integers, Sequences, FiniteSets, TLC

\* ------------------------------------------------------------------ bounds
MaxApis == 2
MaxModels == 2
\* credentials plus models of one call
MaxResources == 4
MaxRetries == 2
MaxNotifiers == 2
MaxUploaders == 3
\* poll_timeout, in clock ticks
PollTimeout == 1

\* ------------------------------------------------------------- vocabulary
Strategies == {"SEQUENTIAL", "RANDOM", "ROUND_ROBIN"}
NotificationModes == {"NONE", "SUCCESS", "ERROR", "ALL"}

\* constants.py MODEL_PRESETS: preset name -> full model id
MODEL_PRESETS ==
  [m \in {"qwen", "qwen-image", "flux-majic", "flux-muse", "flux-xiaohongshu",
          "sdxl-muse"} |->
     CASE m = "qwen" -> "Qwen/Qwen-Image"
       [] m = "qwen-image" -> "Qwen/Qwen-Image"
       [] m = "flux-majic" -> "MAILAND/majicflus_v1"
       [] m = "flux-muse" -> "MusePublic/489_ckpt_FLUX_1"
       [] m = "flux-xiaohongshu" -> "yiwanji/FLUX_xiao_hong_shu_ji_zhi_zhen_shi_V2"
       [] m = "sdxl-muse" -> "MusePublic/42_ckpt_SD_XL"]

\* constants.py SIZE_PRESETS (a size is its sequence of characters); the
\* presets the model draws from, each with its pixel string
SIZE_PRESETS ==
  [s \in {<<"1", ":", "1">>, <<"1", "6", ":", "9">>} |->
     IF s = <<"1", ":", "1">> THEN "1328x1328" ELSE "1664x928"]

Digits == {"0", "1", "2", "3", "4", "5", "6", "7", "8", "9"}

MatchesCustomSizeUnanchored(size) ==
  \E k \in 2..(Len(size) - 1) :
    /\ size[k] = "x"
    /\ size[k - 1] \in Digits
    /\ size[k + 1] \in Digits

\* re.match(r'^\d+x\d+$', size): digits, one "x", digits; "$" also matches
\* just before one trailing newline
MatchesCustomSize(size) ==
  LET body == IF Len(size) > 0 /\ size[Len(size)] = "\n"
              THEN SubSeq(size, 1, Len(size) - 1) ELSE size
  IN \E k \in 2..(Len(body) - 1) :
       /\ body[k] = "x"
       /\ \A i \in 1..Len(body) : i # k => body[i] \in Digits

\* the size arguments the model draws from
Sizes ==
  {<<"1", "6", ":", "9">>, <<"8", "x", "6">>, <<"8", "*", "6">>, <<"x", "6">>, <<>>,
   <<"8", "x", "6", "p">>, <<"a", "8", "x", "6">>, <<"8", "x", "6", "\n">>}

_parse_models_unresolved(models) == models

\* _parse_models, the loop over the list of models
RECURSIVE _parse_models(_)
_parse_models(models) ==
  IF models = <<>> THEN <<>>
  ELSE <<IF Head(models) \in DOMAIN MODEL_PRESETS
         THEN MODEL_PRESETS[Head(models)] ELSE Head(models)>>
       \o _parse_models(Tail(models))

\* A Python value passed as models or api_configs, or as an element of such
\* a list: its type, and what the type carries (the string; the api_key and
\* name of an APIConfig; the elements of a list).
Value(type, str, api_key, name, items) ==
  [type |-> type, str |-> str, api_key |-> api_key, name |-> name, items |-> items]
StrValue(str) == Value("str", str, "", "", <<>>)
APIConfigValue(api_key, name) == Value("APIConfig", "", api_key, name, <<>>)
ListValue(items) == Value("list", "", "", "", items)
IntValue == Value("int", "", "", "", <<>>)

\* _parse_models on the models argument: a single string is wrapped in a list
_parse_models_argument(models) ==
  IF models.type = "str"
  THEN _parse_models(<<models.str>>)
  ELSE _parse_models(models.items)

\* config.py APIConfig.__post_init__: the name of an APIConfig built from a
\* key alone is the host of DEFAULT_BASE_URL
DefaultName == "api-inference.modelscope.cn"

_parse_api_configs_item_unwrapped(item) == item

\* _parse_api_configs, what one element of the list becomes
_parse_api_configs_item(item) ==
  IF item.type = "APIConfig" THEN item ELSE APIConfigValue(item.str, DefaultName)

\* _parse_api_configs: the list of APIConfig, or raised = TRUE for the
\* ValidationError
_parse_api_configs(api_configs) ==
  CASE api_configs.type = "APIConfig" ->
         [raised |-> FALSE, list |-> <<api_configs>>]
    [] api_configs.type = "str" ->
         [raised |-> FALSE, list |-> <<APIConfigValue(api_configs.str, DefaultName)>>]
    [] api_configs.type = "list" ->
         IF \E k \in 1..Len(api_configs.items) :
              api_configs.items[k].type \notin {"APIConfig", "str"}
         THEN [raised |-> TRUE, list |-> <<>>]
         ELSE [raised |-> FALSE,
               list |-> [k \in 1..Len(api_configs.items) |->
                           _parse_api_configs_item(api_configs.items[k])]]
    [] OTHER -> [raised |-> TRUE, list |-> <<>>]

\* the credentials a caller passes: display names, in caller order
ApiNames == <<"api-a", "api-b", "api-c">>
\* the models a caller passes: a preset name, a full id, another preset name
ModelArgs == <<"qwen", "Custom/Model", "flux-majic">>

Prefix(s, n) == [i \in 1..n |-> s[i]]

Max(S) == CHOOSE x \in S : \A y \in S : x >= y

Min(S) == CHOOSE x \in S : \A y \in S : x <= y

\* ------------------------------------------------------ ResourceSelector
RoundRobinScanNoAdvance(len, available, cursor, left) ==
  [index |-> IF cursor \in available THEN cursor ELSE Min(available),
   cursor |-> cursor]

RoundRobinScanStepsOnce(len, available, cursor, left) ==
  [index |-> IF cursor \in available THEN cursor ELSE Min(available),
   cursor |-> (cursor + 1) % len]

\* The ROUND_ROBIN scan of select: at most `left` more probes from `cursor`.
RECURSIVE RoundRobinScan(_, _, _, _)
RoundRobinScan(len, available, cursor, left) ==
  IF left = 0
  THEN [index |-> Min(available), cursor |-> cursor]
  ELSE IF cursor \in available
       THEN [index |-> cursor, cursor |-> (cursor + 1) % len]
       ELSE RoundRobinScan(len, available, (cursor + 1) % len, left - 1)

all_indices(len, used_indices) == 0..(len - 1)

\* select, the indices of resources that are not in used_indices
available_indices(len, used_indices) == {i \in 0..(len - 1) : i \notin used_indices}

first_resource(round_robin_index) == [index |-> 0, cursor |-> round_robin_index]

no_resource_advances(round_robin_index) ==
  [index |-> -1, cursor |-> round_robin_index + 1]

\* select, "return None, -1"
no_resource(round_robin_index) == [index |-> -1, cursor |-> round_robin_index]

\* ResourceSelector.select: the possible (index, new round_robin_index) for
\* a resource list of length len; index -1 stands for (None, -1).
select(strategy, len, used_indices, round_robin_index) ==
  LET available == available_indices(len, used_indices)
  IN IF len = 0 \/ available = {}
     THEN {no_resource(round_robin_index)}
     ELSE CASE strategy = "RANDOM" ->
                 {[index |-> i, cursor |-> round_robin_index] : i \in available}
            [] strategy = "SEQUENTIAL" ->
                 {[index |-> Min(available), cursor |-> round_robin_index]}
            [] strategy = "ROUND_ROBIN" ->
                 {RoundRobinScan(len, available, round_robin_index, len)}
            [] OTHER ->
                 {[index |-> Min(available), cursor |-> round_robin_index]}

\* --------------------------------------------------- NotificationManager
\* _call_callback: how the call ends when the callback raises or returns.
_call_callback_uncaught(raises) == IF raises THEN "raised" ELSE "returned"

_call_callback(raises) == "returned"

\* _notify_all from position index on; R is the set of callbacks that raise.
RECURSIVE _notify_all(_, _, _)
_notify_all(callbacks, R, index) ==
  IF index >= callbacks
  THEN [invoked |-> <<>>, escaped |-> FALSE]
  ELSE IF _call_callback(index \in R) = "raised"
       THEN [invoked |-> <<index>>, escaped |-> TRUE]
       ELSE LET rest == _notify_all(callbacks, R, index + 1)
            IN [invoked |-> <<index>> \o rest.invoked, escaped |-> rest.escaped]

_notify_single_unrotated(strategy, callbacks, R, cursor) ==
  {[invoked |-> IF s.index = -1 THEN <<>> ELSE <<s.index>>,
    escaped |-> s.index # -1 /\ _call_callback(s.index \in R) = "raised",
    cursor |-> cursor] : s \in select(strategy, callbacks, {}, 0)}

\* _notify_single: one callback chosen by the manager's own selector.
_notify_single(strategy, callbacks, R, cursor) ==
  {[invoked |-> IF s.index = -1 THEN <<>> ELSE <<s.index>>,
    escaped |-> s.index # -1 /\ _call_callback(s.index \in R) = "raised",
    cursor |-> s.cursor] : s \in select(strategy, callbacks, {}, cursor)}

\* NotificationManager.notify, its early returns: the mode filter and the
\* empty callback list
SuppressedSwapped(mode, is_success, callbacks) ==
  \/ mode = "NONE"
  \/ mode = "SUCCESS" /\ is_success
  \/ mode = "ERROR" /\ ~is_success
  \/ callbacks = 0

Suppressed(mode, is_success, callbacks) ==
  \/ mode = "NONE"
  \/ mode = "SUCCESS" /\ ~is_success
  \/ mode = "ERROR" /\ is_success
  \/ callbacks = 0

\* NotificationManager.notify: the possible dispatches of one event.
\* invoked: the callbacks called, in order; raised: whether one of them
\* raised; escaped: whether an exception left notify.
notify(mode, strategy, callbacks, cursor, is_success) ==
  IF Suppressed(mode, is_success, callbacks)
  THEN {[invoked |-> <<>>, escaped |-> FALSE, raised |-> FALSE, cursor |-> cursor]}
  ELSE UNION {
         IF strategy \in {"RANDOM", "ROUND_ROBIN"}
         THEN {[invoked |-> r.invoked, escaped |-> r.escaped, cursor |-> r.cursor,
                raised |-> \E k \in 1..Len(r.invoked) : r.invoked[k] \in R]
               : r \in _notify_single(strategy, callbacks, R, cursor)}
         ELSE LET r == _notify_all(callbacks, R, 0)
              IN {[invoked |-> r.invoked, escaped |-> r.escaped, cursor |-> cursor,
                   raised |-> \E k \in 1..Len(r.invoked) : r.invoked[k] \in R]}
         : R \in SUBSET (0..(callbacks - 1))}

\* ---------------------------------------------------- ImageUploadManager
\* what an Uploader can do: raise, return an empty URL, return its URL
Url(index) == CASE index = 0 -> "u1" [] index = 1 -> "u2" [] index = 2 -> "u3"
                [] OTHER -> "u4"
UploaderOutcomes(index) == {"raise", "", Url(index)}

_call_upload_callback_uncaught(outcome) ==
  IF outcome = "raise" THEN "RAISED"
  ELSE IF outcome # "" THEN outcome ELSE "None"

\* _call_upload_callback: the URL returned for one Uploader outcome ("None"
\* for None; "RAISED" would stand for an exception leaving the method)
_call_upload_callback(outcome) ==
  IF outcome = "raise" THEN "None"
  ELSE IF outcome # "" THEN outcome ELSE "None"

\* _upload_with_failover from position index on; outcomes[i + 1] is what
\* Uploader i does when called.
RECURSIVE _upload_all(_, _, _)
_upload_all(upload_callbacks, outcomes, index) ==
  IF index >= upload_callbacks
  THEN [invoked |-> <<>>, url |-> "None"]
  ELSE LET url == _call_upload_callback(outcomes[index + 1])
           rest == _upload_all(upload_callbacks, outcomes, index + 1)
       IN [invoked |-> <<index>> \o rest.invoked,
           url |-> IF rest.url # "None" THEN rest.url ELSE url]

RECURSIVE _upload_with_failover(_, _, _)
_upload_with_failover(upload_callbacks, outcomes, index) ==
  IF index >= upload_callbacks
  THEN [invoked |-> <<>>, url |-> "None"]
  ELSE LET url == _call_upload_callback(outcomes[index + 1])
       IN IF url # "None"
          THEN [invoked |-> <<index>>, url |-> url]
          ELSE LET rest == _upload_with_failover(upload_callbacks, outcomes, index + 1)
               IN [invoked |-> <<index>> \o rest.invoked, url |-> rest.url]

_upload_single_with_failover(strategy, upload_callbacks, outcomes) ==
  {_upload_with_failover(upload_callbacks, outcomes, 0)}

\* _upload_single: one Uploader chosen by a fresh selector (cursor 0)
_upload_single(strategy, upload_callbacks, outcomes) ==
  {IF s.index = -1
   THEN [invoked |-> <<>>, url |-> "None"]
   ELSE [invoked |-> <<s.index>>, url |-> _call_upload_callback(outcomes[s.index + 1])]
   : s \in select(strategy, upload_callbacks, {}, 0)}

\* ImageUploadManager.upload: the possible (Uploaders invoked, URL returned)
upload(strategy, upload_callbacks, outcomes) ==
  IF upload_callbacks = 0
  THEN {[invoked |-> <<>>, url |-> "None"]}
  ELSE IF strategy = "SEQUENTIAL"
       THEN {_upload_with_failover(upload_callbacks, outcomes, 0)}
       ELSE _upload_single(strategy, upload_callbacks, outcomes)

\* ------------------------------------------------------------------ state
VARIABLES
  args,                 \* the arguments of this generate_image call
  pc,                   \* where the call is
  attempt,              \* loop iterations of the orchestrator begun so far
  used_api_indices,     \* credential ExclusionSet
  used_model_indices,   \* model ExclusionSet
  api_index,            \* credential chosen for the current attempt
  model_index,          \* model chosen for the current attempt
  api_selector,         \* api_selector.round_robin_index
  model_selector,       \* model_selector.round_robin_index
  notification_manager, \* notification_manager.selector.round_robin_index
  drv,                  \* the locals of the running _generate_image_single
  result,               \* how the call ended, and the result it returned
  trace,                \* Driver invocations, events, Notifier and Uploader calls, in order
  notifier_raised       \* some Notifier raised during this call

vars == <<args, pc, attempt, used_api_indices, used_model_indices, api_index,
          model_index, api_selector, model_selector, notification_manager,
          drv, result, trace, notifier_raised>>

api_configs_list == args.api_configs
models_list == _parse_models(args.models)

enable_failover_ignored == TRUE

\* generate_image, the enable_failover argument as the loop reads it
enable_failover == args.enable_failover

max_attempts_one_more ==
  IF enable_failover THEN Len(api_configs_list) * Len(models_list) + 1 ELSE 1

max_attempts_per_api ==
  IF enable_failover THEN Len(api_configs_list) ELSE 1

max_attempts ==
  IF enable_failover THEN Len(api_configs_list) * Len(models_list) ELSE 1

\* the locals of _generate_image_single at its entry
DriverEntry ==
  [phase |-> "submit", retry |-> 0, calls |-> 0, all_network |-> TRUE, all_http |-> TRUE,
   elapsed_time |-> 0, task_status |-> "None", reason |-> "running",
   keep_log |-> FALSE, log |-> <<>>]

\* the locals are gone when the Driver has returned; a kept log of its calls
\* stays
DriverExit == [DriverEntry EXCEPT !.keep_log = drv.keep_log, !.log = drv.log]

MaxLoggedCalls == 5

\* the log of the Driver's calls after one more call, where a log is kept
Logged(call, outcome) ==
  IF drv.keep_log
  THEN Append(drv.log, [call |-> call, outcome |-> outcome])
  ELSE drv.log

LogHasRoom == drv.keep_log => Len(drv.log) < MaxLoggedCalls

NoResult == [status |-> "running", model |-> "", api |-> "", url |-> "None"]

Entry(kind, ok, i, j, url) == [kind |-> kind, ok |-> ok, i |-> i, j |-> j, url |-> url]

\* what one notification_manager.notify call adds to the trace: the event
\* handed to the fan-out, then one entry per Notifier invoked
NotifyEntries(kind, is_success, n, url) ==
  <<Entry(kind, is_success, -1, -1, url)>>
  \o [k \in 1..Len(n.invoked) |-> Entry("notifier", is_success, n.invoked[k], -1, url)]

Notify(is_success) ==
  notify(args.notification_mode, args.notification_strategy,
         args.notification_callbacks, notification_manager, is_success)

\* an exception leaves generate_image
Raise(name, entries) ==
  /\ pc' = "raised"
  /\ result' = [result EXCEPT !.status = name]
  /\ trace' = trace \o entries

\* ---------------------------------------------------------------- actions
\* generate_image, argument preprocessing (size check)
Validate ==
  /\ pc = "start"
  /\ IF args.size \in DOMAIN SIZE_PRESETS \/ MatchesCustomSize(args.size)
     THEN pc' = "select" /\ UNCHANGED <<result, trace>>
     ELSE Raise("ValidationError", <<>>)
  /\ UNCHANGED <<args, attempt, used_api_indices, used_model_indices, api_index,
                 model_index, api_selector, model_selector, notification_manager,
                 drv, notifier_raised>>

\* generate_image, head of one loop iteration: select, notify start, call the Driver
SelectResources ==
  /\ pc = "select"
  /\ IF attempt >= max_attempts
     THEN /\ pc' = "exhausted"
          /\ UNCHANGED <<attempt, api_index, model_index, api_selector, model_selector,
                         notification_manager, drv, result, trace, notifier_raised>>
     ELSE \E a \in select(args.api_selection_strategy, Len(api_configs_list),
                          IF enable_failover THEN used_api_indices ELSE {},
                          api_selector),
             m \in select(args.model_selection_strategy, Len(models_list),
                          IF enable_failover THEN used_model_indices ELSE {},
                          model_selector) :
            /\ attempt' = attempt + 1
            /\ api_selector' = a.cursor
            /\ model_selector' = m.cursor
            /\ IF a.index = -1 \/ m.index = -1
               THEN \E n \in Notify(FALSE) :
                      /\ notification_manager' = n.cursor
                      /\ notifier_raised' = (notifier_raised \/ n.raised)
                      /\ IF n.escaped
                         THEN Raise("NotifierError",
                                    NotifyEntries("event_no_resource", FALSE, n, "None"))
                         ELSE /\ pc' = "exhausted"
                              /\ trace' = trace \o NotifyEntries("event_no_resource", FALSE, n, "None")
                              /\ UNCHANGED result
                      /\ UNCHANGED <<api_index, model_index, drv>>
               ELSE \E n \in Notify(TRUE) :
                      /\ notification_manager' = n.cursor
                      /\ notifier_raised' = (notifier_raised \/ n.raised)
                      /\ api_index' = a.index
                      /\ model_index' = m.index
                      /\ IF n.escaped
                         THEN /\ Raise("NotifierError",
                                       NotifyEntries("event_start", TRUE, n, "None"))
                              /\ UNCHANGED drv
                         ELSE /\ pc' = "submit"
                              /\ trace' = trace
                                   \o NotifyEntries("event_start", TRUE, n, "None")
                                   \o <<Entry("driver", TRUE, a.index, m.index, "None")>>
                              /\ drv' = DriverEntry
                              /\ UNCHANGED result
  /\ UNCHANGED <<args, used_api_indices, used_model_indices>>

\* ---------------------------------------------------- the Driver's calls
\* what the remote service can answer to the submit call
SubmitOutcomes == {"ok", "null_task_id", "no_task_id", "not_json", "http_error", "network_error"}
\* ... to one status-check call (a task_status value, or a failure)
NonTerminalStatuses == {"PENDING", "PROCESSING", "RUNNING", "QUEUED"}
FailedStatusesAndRunning == {"FAILED", "CANCELED", "TIMEOUT", "RUNNING"}

FailedStatuses == {"FAILED", "CANCELED", "TIMEOUT"}
StatusOutcomes ==
  NonTerminalStatuses \cup FailedStatuses
  \cup {"SUCCEED", "SUCCEED_no_images", "no_task_status", "not_json", "http_error", "network_error"}
task_status_dispatch_timeout_sleeps(task_status) ==
  IF task_status = "SUCCEED" THEN "download"
  ELSE IF task_status \in {"FAILED", "CANCELED"} THEN "return"
  ELSE "sleep"

\* _generate_image_single, the if/elif chain on task_status: download the
\* image, return None, or sleep poll_interval and poll again
task_status_dispatch(task_status) ==
  IF task_status = "SUCCEED" THEN "download"
  ELSE IF task_status \in FailedStatuses THEN "return"
  ELSE "sleep"

\* ... to the download call
DownloadOutcomes == {"ok", "undecodable", "network_error"}

ExceptionClassesAllRequest(outcome) ==
  IF outcome \in {"network_error", "http_error", "not_json", "no_task_id"}
  THEN IF outcome = "network_error" THEN {"network"} ELSE {"request"}
  ELSE {}

\* The exception classes a failed submit or status-check call can raise:
\* "network" (ConnectionError, Timeout), "request" (another
\* RequestException: HTTPError of raise_for_status, the JSONDecodeError of
\* newer requests), "other" (KeyError, the ValueError of older requests).
ExceptionClasses(outcome) ==
  CASE outcome = "network_error" -> {"network"}
    [] outcome = "http_error" -> {"request"}
    [] outcome = "not_json" -> {"request", "other"}
    [] outcome = "no_task_id" -> {"other"}
    [] OTHER -> {}

RetriesAfterNetworkOnly(class, retry) ==
  /\ class = "network"
  /\ retry < args.max_retries
  /\ args.retry_on_network_error

RetriesAfterOffByOne(class, retry) ==
  /\ class \in {"network", "request"}
  /\ retry <= args.max_retries
  /\ (args.retry_on_network_error \/ class # "network")

\* the except clauses of the submit and status-check loops: retry or give up
RetriesAfter(class, retry) ==
  /\ class \in {"network", "request"}
  /\ retry < args.max_retries
  /\ (args.retry_on_network_error \/ class # "network")

\* the except clause of the download loop
DownloadRetriesAfter(retry) == retry < args.max_retries

\* _generate_image_single returns None (of its locals the state keeps the
\* sub-loop it was in, that loop's call count and the reason)
DriverFails(reason, calls, all_network, all_http, log) ==
  /\ pc' = "failed"
  /\ drv' = [DriverEntry EXCEPT !.phase = drv.phase, !.reason = reason,
                                !.calls = calls, !.all_network = all_network, !.all_http = all_http,
                                !.keep_log = drv.keep_log, !.log = log]
  /\ trace' = trace \o <<Entry("driver_return", FALSE, api_index, model_index, "None")>>
  /\ UNCHANGED result

\* the loop sleeps retry_delay and calls again
DriverRetries(calls, all_network, all_http, log) ==
  /\ pc' = pc
  /\ drv' = [drv EXCEPT !.retry = drv.retry + 1, !.calls = calls,
                        !.all_network = all_network, !.all_http = all_http,
                        !.log = log]
  /\ UNCHANGED <<result, trace>>

DriverFrame ==
  UNCHANGED <<args, attempt, used_api_indices, used_model_indices, api_index,
              model_index, api_selector, model_selector, notification_manager,
              notifier_raised>>

\* _generate_image_single, one pass of the submit loop
SubmitCall ==
  /\ pc = "submit"
  /\ LogHasRoom
  /\ \E outcome \in SubmitOutcomes :
       LET calls == drv.calls + 1
           all_network == drv.all_network /\ outcome = "network_error"
           all_http == drv.all_http /\ outcome = "http_error"
           log == Logged("submit", outcome)
       IN CASE outcome = "ok" ->
                 /\ pc' = "poll"
                 /\ drv' = [drv EXCEPT !.calls = calls, !.all_network = all_network, !.all_http = all_http, !.log = log]
                 /\ UNCHANGED <<result, trace>>
            [] outcome = "null_task_id" ->
                 DriverFails("no_task_id", calls, all_network, all_http, log)
            [] OTHER ->
                 \E class \in ExceptionClasses(outcome) :
                   IF RetriesAfter(class, drv.retry)
                   THEN DriverRetries(calls, all_network, all_http, log)
                   ELSE DriverFails("submit_failed", calls, all_network, all_http, log)
  /\ DriverFrame

\* _generate_image_single, head of the polling loop: the poll_timeout check
PollTimeoutCheck ==
  /\ pc = "poll"
  /\ IF drv.elapsed_time > PollTimeout
     THEN DriverFails("poll_timeout", drv.calls, drv.all_network, drv.all_http, drv.log)
     ELSE /\ pc' = "status"
          /\ drv' = [drv EXCEPT !.phase = "status", !.retry = 0, !.calls = 0,
                                !.all_network = TRUE, !.all_http = TRUE]
          /\ UNCHANGED <<result, trace>>
  /\ DriverFrame

LaterClockStopped(elapsed_time, d) == elapsed_time

\* the wall clock after d more ticks (kept only up to PollTimeout + 1,
\* beyond which the poll_timeout check no longer tells values apart)
Later(elapsed_time, d) ==
  IF elapsed_time + d > PollTimeout THEN PollTimeout + 1 ELSE elapsed_time + d

\* _generate_image_single, one pass of the status-check loop and, when it
\* yields data, the dispatch on task_status
StatusCall ==
  /\ pc = "status"
  /\ LogHasRoom
  /\ \E outcome \in StatusOutcomes, d \in 0..1 :
       LET calls == drv.calls + 1
           all_network == drv.all_network /\ outcome = "network_error"
           all_http == drv.all_http /\ outcome = "http_error"
           log == Logged("status", outcome)
       IN CASE outcome \in {"network_error", "http_error", "not_json"} ->
                 \E class \in ExceptionClasses(outcome) :
                   IF RetriesAfter(class, drv.retry)
                   THEN DriverRetries(calls, all_network, all_http, log)
                   ELSE DriverFails("status_failed", calls, all_network, all_http, log)
            [] outcome = "no_task_status" ->
                 /\ Raise("KeyError", <<>>)
                 /\ drv' = [drv EXCEPT !.calls = calls, !.all_network = all_network, !.all_http = all_http, !.log = log]
            [] outcome = "SUCCEED_no_images" ->
                 /\ Raise("IndexError", <<>>)
                 /\ drv' = [drv EXCEPT !.calls = calls, !.all_network = all_network, !.all_http = all_http,
                                       !.task_status = "SUCCEED", !.log = log]
            [] task_status_dispatch(outcome) = "download" ->
                 /\ pc' = "download"
                 /\ drv' = [drv EXCEPT !.phase = "download", !.retry = 0, !.calls = 0,
                                       !.all_network = TRUE, !.all_http = TRUE, !.task_status = "SUCCEED",
                                       !.log = log]
                 /\ UNCHANGED <<result, trace>>
            [] task_status_dispatch(outcome) = "return" ->
                 DriverFails(outcome, calls, all_network, all_http, log)
            [] OTHER ->
                 /\ pc' = "poll"
                 /\ drv' = [drv EXCEPT !.calls = calls, !.all_network = all_network, !.all_http = all_http,
                                       !.task_status = outcome, !.log = log,
                                       !.elapsed_time = Later(drv.elapsed_time, d)]
                 /\ UNCHANGED <<result, trace>>
  /\ DriverFrame

\* _generate_image_single, one pass of the download loop
DownloadCall ==
  /\ pc = "download"
  /\ LogHasRoom
  /\ \E outcome \in DownloadOutcomes :
       LET calls == drv.calls + 1
           all_network == drv.all_network /\ outcome = "network_error"
           all_http == drv.all_http /\ outcome = "http_error"
           log == Logged("download", outcome)
       IN IF outcome = "ok"
          THEN /\ pc' = "succeeded"
               /\ drv' = [DriverEntry EXCEPT !.phase = "download", !.reason = "ok",
                                             !.calls = calls, !.all_network = all_network, !.all_http = all_http,
                                             !.keep_log = drv.keep_log, !.log = log]
               /\ trace' = trace
                    \o <<Entry("driver_return", TRUE, api_index, model_index, "None")>>
               /\ UNCHANGED result
          ELSE IF DownloadRetriesAfter(drv.retry)
               THEN DriverRetries(calls, all_network, all_http, log)
               ELSE DriverFails("download_failed", calls, all_network, all_http, log)
  /\ DriverFrame

\* ------------------------------------------------- after the Driver returns
\* all the ways the configured Uploaders can behave, one outcome each
UploaderBehaviours ==
  {f \in [1..args.image_upload_callbacks -> {"raise", "", "url"}] : TRUE}

OutcomesOf(f) ==
  [k \in 1..args.image_upload_callbacks |->
     IF f[k] = "url" THEN Url(k - 1) ELSE f[k]]

\* the trace of one upload_manager.upload call: per Uploader invoked, whether
\* it gave a URL, its index, whether it raised (j = 1), the URL
UploadEntries(u, outcomes) ==
  [k \in 1..Len(u.invoked) |->
     LET url == _call_upload_callback(outcomes[u.invoked[k] + 1])
     IN Entry("uploader", url \notin {"None", "RAISED"}, u.invoked[k],
              IF outcomes[u.invoked[k] + 1] = "raise" THEN 1 ELSE 0, url)]

BuildResultUnresolved(url) ==
  [status |-> "result", model |-> args.models[model_index + 1],
   api |-> api_configs_list[api_index + 1], url |-> url]

\* generate_image, the result dict (its image and size left out)
BuildResult(url) ==
  [status |-> "result", model |-> models_list[model_index + 1],
   api |-> api_configs_list[api_index + 1], url |-> url]

SuccessEntriesNotifyFirst(u, outcomes, n) ==
  NotifyEntries("event_success", TRUE, n, "None") \o UploadEntries(u, outcomes)

\* generate_image, the success branch in the order of its calls: the upload
\* fan-out, then the success event, whose data is the result with its url
SuccessEntries(u, outcomes, n) ==
  UploadEntries(u, outcomes) \o NotifyEntries("event_success", TRUE, n, u.url)

upload_requested_whenever_configured == args.image_upload_callbacks > 0

\* generate_image, "if upload_on_success and image_upload_callbacks"
upload_requested == args.upload_on_success /\ args.image_upload_callbacks > 0

\* generate_image, the success branch: upload, build the result, notify, return
AttemptSucceeded ==
  /\ pc = "succeeded"
  /\ \E f \in UploaderBehaviours :
       \E u \in IF upload_requested
                THEN upload(args.upload_strategy, args.image_upload_callbacks, OutcomesOf(f))
                ELSE {[invoked |-> <<>>, url |-> "None"]} :
         \E n \in Notify(TRUE) :
           LET entries == SuccessEntries(u, OutcomesOf(f), n)
           IN IF u.url = "RAISED"
              THEN /\ Raise("UploaderError", UploadEntries(u, OutcomesOf(f)))
                   /\ UNCHANGED <<notification_manager, notifier_raised>>
              ELSE /\ notification_manager' = n.cursor
                   /\ notifier_raised' = (notifier_raised \/ n.raised)
                   /\ IF n.escaped
                      THEN Raise("NotifierError", entries)
                      ELSE /\ pc' = "done"
                           /\ trace' = trace \o entries
                           /\ result' = BuildResult(u.url)
  /\ drv' = DriverExit
  /\ UNCHANGED <<args, attempt, used_api_indices, used_model_indices, api_index,
                 model_index, api_selector, model_selector>>

MarkFailedForgetsCredentials(used_api, used_model, failed_api, failed_model) ==
  IF Cardinality(used_model \cup {failed_model}) >= Len(models_list)
  THEN [api |-> {failed_api}, model |-> {}]
  ELSE [api |-> used_api, model |-> used_model \cup {failed_model}]

MarkFailedKeepsLastModel(used_api, used_model, failed_api, failed_model) ==
  IF Cardinality(used_model \cup {failed_model}) >= Len(models_list)
  THEN [api |-> used_api \cup {failed_api}, model |-> {failed_model}]
  ELSE [api |-> used_api, model |-> used_model \cup {failed_model}]

MarkFailedCredentialFirst(used_api, used_model, failed_api, failed_model) ==
  IF Cardinality(used_api \cup {failed_api}) >= Len(api_configs_list)
  THEN [api |-> {}, model |-> used_model \cup {failed_model}]
  ELSE [api |-> used_api \cup {failed_api}, model |-> used_model]

MarkFailedNoReset(used_api, used_model, failed_api, failed_model) ==
  IF Cardinality(used_model \cup {failed_model}) >= Len(models_list)
  THEN [api |-> used_api \cup {failed_api}, model |-> used_model \cup {failed_model}]
  ELSE [api |-> used_api, model |-> used_model \cup {failed_model}]

\* generate_image, the failover bookkeeping after a failed attempt: the two
\* ExclusionSets afterwards
MarkFailed(used_api, used_model, failed_api, failed_model) ==
  IF Cardinality(used_model \cup {failed_model}) >= Len(models_list)
  THEN [api |-> used_api \cup {failed_api}, model |-> {}]
  ELSE [api |-> used_api, model |-> used_model \cup {failed_model}]

\* generate_image, the failure branch: notify, record the failed combination
AttemptFailed ==
  /\ pc = "failed"
  /\ \E n \in Notify(FALSE) :
       /\ notification_manager' = n.cursor
       /\ notifier_raised' = (notifier_raised \/ n.raised)
       /\ IF n.escaped
          THEN /\ Raise("NotifierError",
                        NotifyEntries("event_attempt_failed", FALSE, n, "None"))
               /\ UNCHANGED <<used_api_indices, used_model_indices>>
          ELSE /\ trace' = trace \o NotifyEntries("event_attempt_failed", FALSE, n, "None")
               /\ UNCHANGED result
               /\ IF enable_failover
                  THEN /\ pc' = "select"
                       /\ used_api_indices' =
                            MarkFailed(used_api_indices, used_model_indices,
                                       api_index, model_index).api
                       /\ used_model_indices' =
                            MarkFailed(used_api_indices, used_model_indices,
                                       api_index, model_index).model
                  ELSE /\ pc' = "exhausted"
                       /\ UNCHANGED <<used_api_indices, used_model_indices>>
  /\ drv' = DriverEntry
  /\ UNCHANGED <<args, attempt, api_index, model_index, api_selector, model_selector>>

final_is_success_default == TRUE

\* generate_image, the is_success flag of the event sent after the loop
final_is_success == FALSE

\* generate_image, after the loop: the final failure event, return None
Exhausted ==
  /\ pc = "exhausted"
  /\ \E n \in Notify(final_is_success) :
       /\ notification_manager' = n.cursor
       /\ notifier_raised' = (notifier_raised \/ n.raised)
       /\ IF n.escaped
          THEN Raise("NotifierError", NotifyEntries("event_exhausted", final_is_success, n, "None"))
          ELSE /\ pc' = "done"
               /\ trace' = trace \o NotifyEntries("event_exhausted", final_is_success, n, "None")
               /\ result' = [result EXCEPT !.status = "none"]
  /\ drv' = DriverEntry
  /\ UNCHANGED <<args, attempt, used_api_indices, used_model_indices, api_index,
                 model_index, api_selector, model_selector>>

\* ------------------------------------------------------------ the calls
\* the arguments a family of calls keeps when it does not vary them (the
\* defaults of generate_image, but two credentials and no retry)
BaseArgs ==
  [api_configs |-> Prefix(ApiNames, 2), models |-> Prefix(ModelArgs, 1),
   api_selection_strategy |-> "SEQUENTIAL", model_selection_strategy |-> "SEQUENTIAL",
   size |-> <<"1", "6", ":", "9">>, enable_failover |-> TRUE,
   max_retries |-> 0, retry_on_network_error |-> TRUE,
   image_upload_callbacks |-> 0, upload_strategy |-> "SEQUENTIAL",
   upload_on_success |-> FALSE,
   notification_callbacks |-> 0, notification_mode |-> "NONE",
   notification_strategy |-> "SEQUENTIAL"]

\* calls that vary the credentials, the models, their strategies and failover
OrchestratorArgs ==
  {[BaseArgs EXCEPT !.api_configs = Prefix(ApiNames, nm[1]),
                    !.models = Prefix(ModelArgs, nm[2]),
                    !.api_selection_strategy = sa,
                    !.model_selection_strategy = sm,
                    !.enable_failover = fo]
   : nm \in {p \in (0..MaxApis) \X (0..MaxModels) : p[1] + p[2] <= MaxResources},
     sa \in Strategies, sm \in Strategies, fo \in BOOLEAN}

\* calls that vary the retry policy
RetryArgs ==
  {[BaseArgs EXCEPT !.max_retries = k, !.retry_on_network_error = r, !.enable_failover = fo]
   : k \in 0..MaxRetries, r \in BOOLEAN, fo \in BOOLEAN}

\* calls that vary the notification fan-out
NotificationArgs ==
  {[BaseArgs EXCEPT !.notification_callbacks = c, !.notification_mode = mode,
                    !.notification_strategy = st]
   : c \in 0..MaxNotifiers, mode \in NotificationModes, st \in Strategies}

\* calls that vary the upload fan-out
UploadArgs ==
  {[BaseArgs EXCEPT !.image_upload_callbacks = c, !.upload_strategy = st,
                    !.upload_on_success = on]
   : c \in 0..MaxUploaders, st \in Strategies, on \in BOOLEAN}

\* calls that have both fan-outs: Uploaders and a Notifier
DeliveryArgs ==
  {[BaseArgs EXCEPT !.image_upload_callbacks = c, !.upload_on_success = TRUE,
                    !.notification_callbacks = 1, !.notification_mode = mode]
   : c \in 1..MaxUploaders, mode \in {"ALL", "SUCCESS"}}

\* calls that vary the size argument
SizeArgs ==
  {[BaseArgs EXCEPT !.size = s, !.notification_callbacks = 1,
                    !.notification_mode = "ALL"] : s \in Sizes}

Init ==
  /\ args \in OrchestratorArgs \cup RetryArgs \cup NotificationArgs \cup UploadArgs
              \cup DeliveryArgs \cup SizeArgs
  /\ pc = "start"
  /\ attempt = 0
  /\ used_api_indices = {}
  /\ used_model_indices = {}
  /\ api_index = -1
  /\ model_index = -1
  /\ api_selector = 0
  /\ model_selector = 0
  /\ notification_manager = 0
  /\ drv = DriverEntry
  /\ result = NoResult
  /\ trace = <<>>
  /\ notifier_raised = FALSE

Next ==
  \/ Validate
  \/ SelectResources
  \/ SubmitCall
  \/ PollTimeoutCheck
  \/ StatusCall
  \/ DownloadCall
  \/ AttemptSucceeded
  \/ AttemptFailed
  \/ Exhausted

Spec == Init /\ [][Next]_vars

\* a pass of the polling loop during which the wall clock advances:
\* time.time() has grown when the loop comes back to its poll_timeout check
ClockAdvances ==
  StatusCall /\ drv'.elapsed_time > drv.elapsed_time

\* the calls again, where every step that can be taken is taken (each network
\* call and each callback returns) and the wall clock advances in the
\* polling loop again and again
\* calls with two credentials and two models under every pair of strategies
TwoByTwoArgs ==
  {[BaseArgs EXCEPT !.models = Prefix(ModelArgs, 2),
                    !.api_selection_strategy = sa,
                    !.model_selection_strategy = sm]
   : sa \in Strategies, sm \in Strategies}

TerminationInit ==
  /\ args \in TwoByTwoArgs \cup RetryArgs
  /\ pc = "start"
  /\ attempt = 0
  /\ used_api_indices = {}
  /\ used_model_indices = {}
  /\ api_index = -1
  /\ model_index = -1
  /\ api_selector = 0
  /\ model_selector = 0
  /\ notification_manager = 0
  /\ drv = DriverEntry
  /\ result = NoResult
  /\ trace = <<>>
  /\ notifier_raised = FALSE

TerminationSpec ==
  TerminationInit /\ [][Next]_vars /\ WF_vars(Next) /\ SF_vars(ClockAdvances)

\* ------------------------------------------- ResourceSelector on its own
MaxSelectCalls == 3

\* one ResourceSelector with its strategy and the resource list it is used on
SelectorArgs ==
  {[BaseArgs EXCEPT !.api_configs = Prefix(ApiNames, n),
                    !.api_selection_strategy = st]
   : n \in 0..MaxApis, st \in Strategies}

\* ResourceSelector.__init__
SelectorInit ==
  /\ args \in SelectorArgs
  /\ pc = "selector"
  /\ attempt = 0
  /\ used_api_indices = {}
  /\ used_model_indices = {}
  /\ api_index = -1
  /\ model_index = -1
  /\ api_selector = 0
  /\ model_selector = 0
  /\ notification_manager = 0
  /\ drv = DriverEntry
  /\ result = NoResult
  /\ trace = <<>>
  /\ notifier_raised = FALSE

\* one call of select in the history: the used_indices passed, the cursor
\* before the call, the index returned
SelectEntry(used_indices, round_robin_index, index) ==
  [kind |-> "select", used_indices |-> used_indices,
   round_robin_index |-> round_robin_index, index |-> index]

\* one call selector.select(resources, used_indices) with any set of
\* indices of resources as used_indices
SelectCall ==
  /\ pc = "selector"
  /\ attempt < MaxSelectCalls
  /\ \E used_indices \in SUBSET (0..(Len(api_configs_list) - 1)) :
       \E r \in select(args.api_selection_strategy, Len(api_configs_list),
                       used_indices, api_selector) :
         /\ used_api_indices' = used_indices
         /\ api_index' = r.index
         /\ api_selector' = r.cursor
         /\ trace' = Append(trace, SelectEntry(used_indices, api_selector, r.index))
  /\ attempt' = attempt + 1
  /\ UNCHANGED <<args, pc, used_model_indices, model_index, model_selector,
                 notification_manager, drv, result, notifier_raised>>

SelectorNext == SelectCall

SelectorSpec == SelectorInit /\ [][SelectorNext]_vars

\* ------------------------------------------ two calls running concurrently
\* The same generate_image call made by two threads. Each variable holds one
\* value per invocation; drv holds the fixed outcomes of the Driver for that
\* invocation: the number of the attempt that succeeds (0: none does).
Invocations == {1, 2}

DeterministicStrategies == {"SEQUENTIAL", "ROUND_ROBIN"}

ConcurrentArgs ==
  {[BaseArgs EXCEPT !.api_configs = Prefix(ApiNames, nm[1]),
                    !.models = Prefix(ModelArgs, nm[2]),
                    !.api_selection_strategy = sa,
                    !.model_selection_strategy = sm,
                    !.enable_failover = fo]
   : nm \in {q \in (1..MaxApis) \X (1..MaxModels) : q[1] + q[2] <= MaxResources},
     sa \in DeterministicStrategies, sm \in DeterministicStrategies,
     fo \in BOOLEAN}

selector_of_module(invocation) == 1

\* generate_image creates its two ResourceSelectors (and its used sets) as
\* locals: the selectors an invocation uses are its own
selector_of(invocation) == invocation

ConcurrentInit ==
  /\ args \in ConcurrentArgs
  /\ pc = [p \in Invocations |-> "select"]
  /\ attempt = [p \in Invocations |-> 0]
  /\ used_api_indices = [p \in Invocations |-> {}]
  /\ used_model_indices = [p \in Invocations |-> {}]
  /\ api_index = [p \in Invocations |-> -1]
  /\ model_index = [p \in Invocations |-> -1]
  /\ api_selector = [p \in Invocations |-> 0]
  /\ model_selector = [p \in Invocations |-> 0]
  /\ notification_manager = [p \in Invocations |-> 0]
  /\ drv \in [Invocations -> 0..max_attempts]
  /\ result = [p \in Invocations |-> NoResult]
  /\ trace = [p \in Invocations |-> <<>>]
  /\ notifier_raised = FALSE

\* generate_image in invocation p, head of one loop iteration: the two select
\* calls and, when both return a resource, the call of the Driver
ConcurrentSelect(p) ==
  /\ pc[p] = "select"
  /\ IF attempt[p] >= max_attempts
     THEN /\ pc' = [pc EXCEPT ![p] = "done"]
          /\ result' = [result EXCEPT ![p].status = "none"]
          /\ UNCHANGED <<attempt, api_index, model_index, api_selector, model_selector,
                         trace>>
     ELSE \E a \in select(args.api_selection_strategy, Len(api_configs_list),
                          IF enable_failover THEN used_api_indices[p] ELSE {},
                          api_selector[selector_of(p)]),
             m \in select(args.model_selection_strategy, Len(models_list),
                          IF enable_failover THEN used_model_indices[p] ELSE {},
                          model_selector[selector_of(p)]) :
            /\ attempt' = [attempt EXCEPT ![p] = @ + 1]
            /\ api_selector' = [api_selector EXCEPT ![selector_of(p)] = a.cursor]
            /\ model_selector' = [model_selector EXCEPT ![selector_of(p)] = m.cursor]
            /\ IF a.index = -1 \/ m.index = -1
               THEN /\ pc' = [pc EXCEPT ![p] = "done"]
                    /\ result' = [result EXCEPT ![p].status = "none"]
                    /\ UNCHANGED <<api_index, model_index, trace>>
               ELSE /\ pc' = [pc EXCEPT ![p] = "driver"]
                    /\ api_index' = [api_index EXCEPT ![p] = a.index]
                    /\ model_index' = [model_index EXCEPT ![p] = m.index]
                    /\ trace' = [trace EXCEPT ![p] = Append(@, <<a.index, m.index>>)]
                    /\ UNCHANGED result
  /\ UNCHANGED <<args, used_api_indices, used_model_indices, notification_manager,
                 drv, notifier_raised>>

\* generate_image in invocation p, after the Driver returned: the result is
\* returned, or the failed combination is recorded and the loop goes on
ConcurrentDriverReturn(p) ==
  /\ pc[p] = "driver"
  /\ IF attempt[p] = drv[p]
     THEN /\ pc' = [pc EXCEPT ![p] = "done"]
          /\ result' = [result EXCEPT ![p] =
               [status |-> "result", model |-> models_list[model_index[p] + 1],
                api |-> api_configs_list[api_index[p] + 1], url |-> "None"]]
          /\ UNCHANGED <<used_api_indices, used_model_indices>>
     ELSE IF enable_failover
          THEN /\ pc' = [pc EXCEPT ![p] = "select"]
               /\ used_api_indices' = [used_api_indices EXCEPT ![p] =
                    MarkFailed(used_api_indices[p], used_model_indices[p],
                               api_index[p], model_index[p]).api]
               /\ used_model_indices' = [used_model_indices EXCEPT ![p] =
                    MarkFailed(used_api_indices[p], used_model_indices[p],
                               api_index[p], model_index[p]).model]
               /\ UNCHANGED result
          ELSE /\ pc' = [pc EXCEPT ![p] = "done"]
               /\ result' = [result EXCEPT ![p].status = "none"]
               /\ UNCHANGED <<used_api_indices, used_model_indices>>
  /\ UNCHANGED <<args, attempt, api_index, model_index, api_selector, model_selector,
                 notification_manager, drv, trace, notifier_raised>>

ConcurrentNext ==
  \E p \in Invocations : ConcurrentSelect(p) \/ ConcurrentDriverReturn(p)

ConcurrentSpec == ConcurrentInit /\ [][ConcurrentNext]_vars

\* ------------------------------------------- one Driver attempt, observed
\* generate_image with one credential and one model, from the point where
\* it calls the Driver for the first time; the state keeps the log of the
\* Driver's calls (at most MaxLoggedCalls of them).
DriverArgs ==
  {[BaseArgs EXCEPT !.api_configs = Prefix(ApiNames, 1),
                    !.models = Prefix(ModelArgs, 1),
                    !.enable_failover = FALSE,
                    !.max_retries = k,
                    !.retry_on_network_error = r]
   : k \in 0..1, r \in BOOLEAN}

DriverInit ==
  /\ args \in DriverArgs
  /\ pc = "submit"
  /\ attempt = 1
  /\ used_api_indices = {}
  /\ used_model_indices = {}
  /\ api_index = 0
  /\ model_index = 0
  /\ api_selector = 0
  /\ model_selector = 0
  /\ notification_manager = 0
  /\ drv = [DriverEntry EXCEPT !.keep_log = TRUE]
  /\ result = NoResult
  /\ trace = <<Entry("event_start", TRUE, -1, -1, "None"),
               Entry("driver", TRUE, 0, 0, "None")>>
  /\ notifier_raised = FALSE

DriverNext ==
  \/ SubmitCall
  \/ PollTimeoutCheck
  \/ StatusCall
  \/ DownloadCall
  \/ AttemptSucceeded

DriverSpec == DriverInit /\ [][DriverNext]_vars

\* --------------------------------------------- the argument preprocessing
MaxListLen == 3

\* the sequences over S of length at most n
RECURSIVE SeqsUpTo(_, _)
SeqsUpTo(S, n) ==
  IF n = 0 THEN {<<>>}
  ELSE LET shorter == SeqsUpTo(S, n - 1)
       IN shorter \cup {Append(q, x) : q \in shorter, x \in S}

\* the values a caller passes as api_configs: a key, an APIConfig, a number,
\* or a list of such values
ApiConfigItems ==
  {StrValue("k0"), StrValue("k1"), APIConfigValue("k2", "api-a"), IntValue}
ApiConfigsArguments ==
  ApiConfigItems \cup {ListValue(q) : q \in SeqsUpTo(ApiConfigItems, MaxListLen)}

\* the values a caller passes as models: a name or a list of names (preset
\* names, a full id, the full id of a preset)
ModelNames == {"qwen", "flux-majic", "Custom/Model", "Qwen/Qwen-Image"}
ModelsArguments ==
  {StrValue(m) : m \in ModelNames}
  \cup {ListValue(q) : q \in SeqsUpTo(ModelNames, MaxModels)}

ParseInit ==
  /\ args \in {[BaseArgs EXCEPT !.api_configs = a, !.models = m]
               : a \in ApiConfigsArguments, m \in ModelsArguments}
  /\ pc = "parse_api_configs"
  /\ attempt = 0
  /\ used_api_indices = {}
  /\ used_model_indices = {}
  /\ api_index = -1
  /\ model_index = -1
  /\ api_selector = 0
  /\ model_selector = 0
  /\ notification_manager = 0
  /\ drv = DriverEntry
  /\ result = [NoResult EXCEPT !.api = <<>>, !.model = <<>>]
  /\ trace = <<>>
  /\ notifier_raised = FALSE

ParseFrame ==
  UNCHANGED <<args, attempt, used_api_indices, used_model_indices, api_index,
              model_index, api_selector, model_selector, notification_manager,
              drv, trace, notifier_raised>>

\* generate_image: api_configs_list = _parse_api_configs(api_configs)
ParseApiConfigs ==
  /\ pc = "parse_api_configs"
  /\ LET parsed == _parse_api_configs(args.api_configs)
     IN IF parsed.raised
        THEN /\ pc' = "raised"
             /\ result' = [result EXCEPT !.status = "ValidationError"]
        ELSE /\ pc' = "parse_models"
             /\ result' = [result EXCEPT !.api = parsed.list]
  /\ ParseFrame

\* generate_image: models_list = _parse_models(models)
ParseModels ==
  /\ pc = "parse_models"
  /\ pc' = "parsed"
  /\ result' = [result EXCEPT !.model = _parse_models_argument(args.models)]
  /\ ParseFrame

ParseNext == ParseApiConfigs \/ ParseModels

ParseSpec == ParseInit /\ [][ParseNext]_vars

\* ------------------------------------------------------------ properties
OfKind(kind) == SelectSeq(trace, LAMBDA e : e.kind = kind)
\* the Driver invocations of this call, their returns, the Notifier and
\* Uploader invocations, each in order
DriverCalls == OfKind("driver")
DriverReturns == OfKind("driver_return")
NotifierCalls == OfKind("notifier")
UploaderCalls == OfKind("uploader")
NumApis == Len(api_configs_list)
NumModels == Len(models_list)
SizeAccepted == args.size \in DOMAIN SIZE_PRESETS \/ MatchesCustomSize(args.size)
Returned == pc = "done"

\* C1: with failover enabled, no (credential index, model index) pair is
\* passed to the Driver more than once in one generate_image call, whatever
\* the selection strategies and the Driver failures.
C1_NoPairTwice ==
  args.enable_failover =>
    \A k1, k2 \in 1..Len(DriverCalls) :
      k1 # k2 => <<DriverCalls[k1].i, DriverCalls[k1].j>>
                   # <<DriverCalls[k2].i, DriverCalls[k2].j>>

\* C2: with failover enabled, N credentials and M models, the Driver is never
\* invoked more than N*M times; a call in which every Driver attempt failed
\* returns none, and a call that returns none has invoked the Driver exactly
\* N*M times, for every pair of selection strategies.
C2_ExactlyNTimesM ==
  args.enable_failover =>
    /\ Len(DriverCalls) <= NumApis * NumModels
    /\ (Returned /\ (\A k \in 1..Len(DriverReturns) : ~DriverReturns[k].ok))
         => result.status = "none"
    /\ (Returned /\ result.status = "none")
         => /\ Len(DriverCalls) = NumApis * NumModels
            /\ Len(DriverReturns) = NumApis * NumModels

C2_Witness ==
  /\ args.enable_failover
  /\ NumApis = 2 /\ NumModels = 2
  /\ args.api_selection_strategy = "RANDOM"
  /\ args.model_selection_strategy = "ROUND_ROBIN"
  /\ Returned /\ result.status = "none"
  /\ Len(DriverCalls) = 4

\* C3: for valid caller input no exception ends generate_image, whatever the
\* remote service answers to submit, status check and download: the call
\* ends in a result or in none.
C3_NoExceptionForRemoteAnswers ==
  SizeAccepted => pc # "raised"

\* C4: with failover enabled, at least two credentials and Sequential
\* credential selection, the first M Driver invocations (M models, each
\* failing) use credential 0, the next one uses credential 1, and when that
\* next selection is made the model ExclusionSet is empty and the credential
\* ExclusionSet is {0}.
C4_ModelExclusionReset ==
  (/\ args.enable_failover
   /\ args.api_selection_strategy = "SEQUENTIAL"
   /\ NumApis >= 2 /\ NumModels >= 1) =>
    /\ \A k \in 1..Len(DriverCalls) :
         /\ k <= NumModels => DriverCalls[k].i = 0
         /\ k = NumModels + 1 => DriverCalls[k].i = 1
    /\ (pc = "select" /\ Len(DriverReturns) = NumModels)
         => used_model_indices = {} /\ used_api_indices = {0}

C4_Witness ==
  /\ args.enable_failover
  /\ args.api_selection_strategy = "SEQUENTIAL"
  /\ args.model_selection_strategy = "RANDOM"
  /\ NumApis = 2 /\ NumModels = 2
  /\ Len(DriverCalls) = 3
  /\ DriverCalls[3].i = 1 /\ DriverCalls[3].j = 1

\* C5: a returned result names the resolved model and the credential name of
\* the last Driver invocation; that invocation is the only one that succeeded
\* and nothing is invoked after it; with 2 credentials, 1 model, Sequential
\* strategies and the first attempt failing, a result comes from exactly two
\* Driver invocations and names credential 1.
C5_ResultNamesLastAttempt ==
  /\ \A k \in 1..Len(DriverReturns) :
       DriverReturns[k].ok => k = Len(DriverReturns) /\ k = Len(DriverCalls)
  /\ result.status = "result" =>
       /\ Len(DriverCalls) >= 1
       /\ Len(DriverReturns) = Len(DriverCalls)
       /\ DriverReturns[Len(DriverReturns)].ok
       /\ result.model = models_list[DriverCalls[Len(DriverCalls)].j + 1]
       /\ result.api = api_configs_list[DriverCalls[Len(DriverCalls)].i + 1]
       /\ (/\ NumApis = 2 /\ NumModels = 1 /\ args.enable_failover
           /\ args.api_selection_strategy = "SEQUENTIAL"
           /\ args.model_selection_strategy = "SEQUENTIAL"
           /\ ~DriverReturns[1].ok)
            => /\ Len(DriverCalls) = 2
               /\ result.api = api_configs_list[2]
               /\ result.model = "Qwen/Qwen-Image"

C5_Witness ==
  /\ result.status = "result"
  /\ NumApis = 2 /\ NumModels = 1 /\ args.enable_failover
  /\ args.api_selection_strategy = "SEQUENTIAL"
  /\ args.model_selection_strategy = "SEQUENTIAL"
  /\ Len(DriverCalls) = 2
  /\ result.api = "api-b"

RetryLoopGaveUp ==
  /\ pc = "failed"
  /\ drv.reason \in {"submit_failed", "status_failed", "download_failed"}

\* C6: with retry_on_network_error = true and max_retries = k, a retry
\* sub-loop (submit, one status check, download) whose every call fails with
\* a network-class error issues the call exactly k+1 times and the Driver
\* attempt then fails: while the loop runs it has issued at most k+1 calls, and
\* when it gives up it has issued exactly k+1.
C6_NetworkErrorsRetriedKTimes ==
  (args.retry_on_network_error /\ drv.all_network) =>
    /\ drv.calls <= args.max_retries + 1
    /\ drv.calls = args.max_retries + 1 => pc = "failed"
    /\ RetryLoopGaveUp => drv.calls = args.max_retries + 1

C6_Witness ==
  /\ args.retry_on_network_error /\ drv.all_network
  /\ args.max_retries = 2
  /\ RetryLoopGaveUp /\ drv.phase = "status"
  /\ drv.calls = 3

\* C7: with retry_on_network_error = false, a sub-loop (submit, status check
\* or download) whose call fails with a network-class error ends after that
\* one call, whatever max_retries is.
C7_NoRetryOfNetworkErrors ==
  (~args.retry_on_network_error /\ drv.all_network /\ drv.calls >= 1) =>
    drv.calls = 1 /\ pc = "failed"

\* C8 (as stated): with notification_mode ERROR a call that returns a result
\* has invoked no Notifier at all, and with notification_mode SUCCESS a call
\* that returns none has invoked no Notifier at all.
C8_NoNotifierForOppositeOutcome ==
  /\ (args.notification_mode = "ERROR" /\ result.status = "result")
       => Len(NotifierCalls) = 0
  /\ (args.notification_mode = "SUCCESS" /\ result.status = "none")
       => Len(NotifierCalls) = 0

\* the event of the dispatch that trace entry p (a Notifier invocation) belongs to
EventOf(p) ==
  LET q == CHOOSE q \in 1..p :
             /\ trace[q].kind \notin {"notifier"}
             /\ \A r \in (q + 1)..p : trace[r].kind = "notifier"
  IN trace[q].kind

\* C8 (amended): the filter is per event.  With notification_mode ERROR no
\* Notifier is invoked for an event with is_success = true, so a call whose
\* first Driver attempt succeeds invokes no Notifier; with notification_mode
\* SUCCESS no Notifier is invoked for an event with is_success = false, so a
\* call that returns none has invoked Notifiers for start events only.
C8_FilterIsPerEvent ==
  /\ args.notification_mode = "ERROR" =>
       /\ \A k \in 1..Len(NotifierCalls) : ~NotifierCalls[k].ok
       /\ (result.status = "result" /\ Len(DriverCalls) = 1) => Len(NotifierCalls) = 0
  /\ args.notification_mode = "SUCCESS" =>
       /\ \A k \in 1..Len(NotifierCalls) : NotifierCalls[k].ok
       /\ result.status = "none" =>
            \A p \in 1..Len(trace) :
              trace[p].kind = "notifier" => EventOf(p) = "event_start"

C8_Witness ==
  /\ args.notification_mode = "SUCCESS"
  /\ args.notification_callbacks = 2
  /\ args.notification_strategy = "SEQUENTIAL"
  /\ result.status = "none"
  /\ Len(NotifierCalls) = 4

\* C9: a Notifier that raises changes nothing in the call: no exception of a
\* Notifier leaves generate_image, and a call during which a Notifier raised
\* returns what the Driver outcomes alone determine (a result naming the last,
\* successful attempt, or none after all N*M attempts failed).
C9_NotifierExceptionsContained ==
  /\ result.status # "NotifierError"
  /\ (notifier_raised /\ Returned) =>
       /\ result.status \in {"result", "none"}
       /\ result.status = "result" <=>
            (Len(DriverReturns) >= 1 /\ DriverReturns[Len(DriverReturns)].ok)
       /\ result.status = "result" =>
            /\ result.model = models_list[DriverCalls[Len(DriverCalls)].j + 1]
            /\ result.api = api_configs_list[DriverCalls[Len(DriverCalls)].i + 1]
       /\ (result.status = "none" /\ args.enable_failover) =>
            Len(DriverCalls) = NumApis * NumModels

C9_Witness ==
  /\ notifier_raised
  /\ Returned
  /\ result.status = "result"
  /\ Len(DriverCalls) = 2

\* C10: under the Sequential upload strategy the Uploaders are invoked in list
\* order from the first, the fan-out stops at the first one that returns a
\* non-empty URL and returns that URL (none if all of them failed); with
\* [A fails, B returns "u2", C] the returned URL is "u2" and C is not invoked.
C10_SequentialUploadStopsAtFirstUrl ==
  (args.upload_strategy = "SEQUENTIAL" /\ result.status = "result") =>
    /\ \A k \in 1..Len(UploaderCalls) :
         /\ UploaderCalls[k].i = k - 1
         /\ k < Len(UploaderCalls) => ~UploaderCalls[k].ok
    /\ IF Len(UploaderCalls) >= 1 /\ UploaderCalls[Len(UploaderCalls)].ok
       THEN result.url = UploaderCalls[Len(UploaderCalls)].url
       ELSE /\ result.url = "None"
            /\ (args.upload_on_success =>
                  Len(UploaderCalls) = args.image_upload_callbacks)
    /\ (Len(UploaderCalls) >= 2 /\ UploaderCalls[2].ok)
         => result.url = "u2" /\ Len(UploaderCalls) = 2

C10_Witness ==
  /\ args.upload_strategy = "SEQUENTIAL"
  /\ args.image_upload_callbacks = 3
  /\ result.status = "result"
  /\ Len(UploaderCalls) = 2
  /\ ~UploaderCalls[1].ok
  /\ result.url = "u2"

\* C11: an Uploader that raises or returns an empty URL only counts as a
\* failed Uploader: no exception of an Uploader leaves generate_image, a call
\* whose Driver succeeded returns a result naming the model and credential of
\* that attempt, and when every invoked Uploader failed the result's url is
\* none.
C11_UploaderFailuresContained ==
  /\ result.status # "UploaderError"
  /\ \A k \in 1..Len(UploaderCalls) :
       (UploaderCalls[k].j = 1 \/ UploaderCalls[k].url = "None")
         => ~UploaderCalls[k].ok /\ UploaderCalls[k].url = "None"
  /\ (/\ pc \in {"done", "raised"}
      /\ Len(DriverReturns) >= 1
      /\ DriverReturns[Len(DriverReturns)].ok)
       => /\ result.status = "result"
          /\ result.model = models_list[DriverCalls[Len(DriverCalls)].j + 1]
          /\ result.api = api_configs_list[DriverCalls[Len(DriverCalls)].i + 1]
          /\ (\A k \in 1..Len(UploaderCalls) : ~UploaderCalls[k].ok)
               => result.url = "None"

C11_Witness ==
  /\ Returned
  /\ result.status = "result"
  /\ result.url = "None"
  /\ Len(UploaderCalls) = 2
  /\ UploaderCalls[1].j = 1
  /\ UploaderCalls[2].j = 0 /\ ~UploaderCalls[2].ok

\* size arguments that are neither a preset key nor digits, "x", digits
InvalidSizes ==
  {<<"8", "*", "6">>, <<"x", "6">>, <<>>, <<"8", "x", "6", "p">>,
   <<"a", "8", "x", "6">>}

\* C12: a size that is neither a preset key nor of the form digits-x-digits
\* makes generate_image raise ValidationError at once: the call never gets
\* past validation, so no submit call, no Driver invocation and no Notifier
\* invocation happens.
C12_InvalidSizeRaisesFirst ==
  args.size \in InvalidSizes =>
    /\ pc \in {"start", "raised"}
    /\ pc = "raised" => result.status = "ValidationError"
    /\ trace = <<>>
    /\ drv = DriverEntry
    /\ attempt = 0

C12_Witness ==
  /\ args.size = <<"8", "x", "6", "p">>
  /\ args.notification_callbacks = 1 /\ args.notification_mode = "ALL"
  /\ pc = "raised"
  /\ result.status = "ValidationError"
  /\ trace = <<>>

\* the calls of select made on the Selector so far, in order
SelectCalls == OfKind("select")

\* C13: for a non-empty resource list, every strategy, every cursor value the
\* Selector can have reached and every excluded set with fewer elements than
\* the list, select returns a valid index of the list that is not excluded.
C13_SelectReturnsUnexcludedIndex ==
  \A k \in 1..Len(SelectCalls) :
    (NumApis >= 1 /\ Cardinality(SelectCalls[k].used_indices) < NumApis)
      => /\ SelectCalls[k].index \in 0..(NumApis - 1)
         /\ SelectCalls[k].index \notin SelectCalls[k].used_indices

C13_Witness ==
  /\ args.api_selection_strategy = "ROUND_ROBIN"
  /\ NumApis = 2
  /\ Len(SelectCalls) = 2
  /\ SelectCalls[2].round_robin_index = 1
  /\ SelectCalls[2].used_indices = {1}
  /\ SelectCalls[2].index = 0

\* C14: for every resource list, the empty one included, and every strategy,
\* a select call whose excluded set has as many elements as the list returns
\* (none, -1).
C14_SelectReturnsNoneWhenAllExcluded ==
  \A k \in 1..Len(SelectCalls) :
    Cardinality(SelectCalls[k].used_indices) = NumApis
      => SelectCalls[k].index = -1

C14_Witness ==
  /\ args.api_selection_strategy = "RANDOM"
  /\ NumApis = 2
  /\ Len(SelectCalls) = 2
  /\ SelectCalls[1].index = 1
  /\ SelectCalls[2].used_indices = {0, 1}
  /\ SelectCalls[2].index = -1

\* C15: under the Sequential strategy select returns the smallest index that
\* is not excluded, so two calls with the same excluded set return the same
\* index whatever calls were made in between or before.
C15_SequentialReturnsSmallest ==
  args.api_selection_strategy = "SEQUENTIAL" =>
    /\ \A k \in 1..Len(SelectCalls) :
         SelectCalls[k].index >= 0 =>
           /\ SelectCalls[k].index \notin SelectCalls[k].used_indices
           /\ \A i \in 0..(SelectCalls[k].index - 1) :
                i \in SelectCalls[k].used_indices
    /\ \A k, l \in 1..Len(SelectCalls) :
         SelectCalls[k].used_indices = SelectCalls[l].used_indices
           => SelectCalls[k].index = SelectCalls[l].index

C15_Witness ==
  /\ args.api_selection_strategy = "SEQUENTIAL"
  /\ NumApis = 2
  /\ Len(SelectCalls) = 3
  /\ SelectCalls[1].used_indices = {} /\ SelectCalls[1].index = 0
  /\ SelectCalls[2].used_indices = {0} /\ SelectCalls[2].index = 1
  /\ SelectCalls[3].used_indices = {} /\ SelectCalls[3].index = 0

\* C16: under the RoundRobin strategy, any len(items) consecutive select calls
\* on one Selector that all pass an empty excluded set return every index of
\* items exactly once, wherever the cursor stood before them.
C16_RoundRobinVisitsEveryIndex ==
  (args.api_selection_strategy = "ROUND_ROBIN" /\ NumApis >= 1) =>
    \A k \in 1..Len(SelectCalls) :
      (/\ k + NumApis - 1 <= Len(SelectCalls)
       /\ \A l \in k..(k + NumApis - 1) : SelectCalls[l].used_indices = {})
        => {SelectCalls[l].index : l \in k..(k + NumApis - 1)} = 0..(NumApis - 1)

C16_Witness ==
  /\ args.api_selection_strategy = "ROUND_ROBIN"
  /\ NumApis = 2
  /\ Len(SelectCalls) = 3
  /\ SelectCalls[1].used_indices = {0} /\ SelectCalls[1].index = 1
  /\ SelectCalls[2].used_indices = {} /\ SelectCalls[2].index = 0
  /\ SelectCalls[3].used_indices = {} /\ SelectCalls[3].index = 1

\* C17: with failover disabled generate_image invokes the Driver at most once,
\* whatever the numbers of credentials and models; no index is ever excluded
\* from either selection; and once that single attempt has failed the call
\* goes straight to its final event and returns none.
C17_NoFailoverSingleAttempt ==
  ~args.enable_failover =>
    /\ Len(DriverCalls) <= 1
    /\ attempt <= 1
    /\ used_api_indices = {} /\ used_model_indices = {}
    /\ (Len(DriverReturns) = 1 /\ ~DriverReturns[1].ok /\ pc # "failed")
         => /\ pc \in {"exhausted", "done"}
            /\ Returned => result.status = "none"

C17_Witness ==
  /\ ~args.enable_failover
  /\ NumApis = 2 /\ NumModels = 2
  /\ Returned
  /\ result.status = "none"
  /\ Len(DriverCalls) = 1
  /\ Len(DriverReturns) = 1 /\ ~DriverReturns[1].ok

\* C18 (as stated): a submit or status-check call answered with a non-2xx
\* HTTP status ends the Driver attempt at once: the call is issued once in
\* that sub-loop and the attempt has failed, whatever max_retries and
\* retry_on_network_error are.
C18_HttpErrorIsTerminal ==
  (drv.phase \in {"submit", "status"} /\ drv.all_http /\ drv.calls >= 1) =>
    drv.calls = 1 /\ pc = "failed"

\* C18 (amended): a submit or status-check call answered with a non-2xx HTTP
\* status is retried like any failure that is not network-class: a sub-loop
\* whose every call is answered so issues the call exactly max_retries + 1
\* times, whatever retry_on_network_error is, and then the Driver attempt
\* fails; the first such answer is terminal only when max_retries = 0.
C18_HttpErrorsRetriedKTimes ==
  (drv.phase \in {"submit", "status"} /\ drv.all_http /\ drv.calls >= 1) =>
    /\ drv.calls <= args.max_retries + 1
    /\ drv.calls = args.max_retries + 1 => pc = "failed"
    /\ RetryLoopGaveUp => drv.calls = args.max_retries + 1
    /\ args.max_retries = 0 => pc = "failed"

C18_Witness ==
  /\ ~args.retry_on_network_error
  /\ args.max_retries = 2
  /\ drv.phase = "status" /\ drv.all_http
  /\ RetryLoopGaveUp
  /\ drv.calls = 3

\* the (credential, model) combinations no Driver invocation has used yet
UntriedCombinations ==
  {c \in (0..(NumApis - 1)) \X (0..(NumModels - 1)) :
     \A k \in 1..Len(DriverCalls) : <<DriverCalls[k].i, DriverCalls[k].j>> # c}

\* after the failure just returned, the loop runs again and both selections
\* return a resource, so the Driver is invoked once more
DriverInvokedAgain ==
  LET used == MarkFailed(used_api_indices, used_model_indices, api_index, model_index)
  IN /\ enable_failover
     /\ attempt < max_attempts
     /\ \E a \in select(args.api_selection_strategy, NumApis, used.api, api_selector) :
          a.index >= 0
     /\ \E m \in select(args.model_selection_strategy, NumModels, used.model,
                        model_selector) :
          m.index >= 0

\* C19: a Driver attempt that ends on a FAILED, CANCELED or TIMEOUT status or
\* on the poll_timeout check makes no further status-check or download call
\* (it never reaches the download loop and returns at once), and it fails
\* only that attempt: with failover enabled and a combination not yet tried,
\* the Orchestrator invokes the Driver again.
C19_ServiceFailureFailsOnlyTheAttempt ==
  (pc = "failed" /\ drv.reason \in FailedStatuses \cup {"poll_timeout"}) =>
    /\ drv.phase = "status"
    /\ DriverReturns # <<>> /\ ~DriverReturns[Len(DriverReturns)].ok
    /\ Len(DriverReturns) = Len(DriverCalls)
    /\ (args.enable_failover /\ UntriedCombinations # {}) => DriverInvokedAgain

\* the events handed to notification_manager.notify with is_success = false
ErrorEvents ==
  SelectSeq(trace, LAMBDA e :
    e.kind \in {"event_attempt_failed", "event_no_resource", "event_exhausted"}
    /\ ~e.ok)

\* C20: a call that returns none has dispatched at least one error event
\* (is_success = false) to the notification fan-out before returning, the
\* last thing it did; with notification_mode ERROR or ALL and a Notifier
\* configured, a Notifier has been invoked for an error event. A call returns
\* either a result with its model and credential filled in, or none with no
\* field of a result set.
C20_NoneReturnNotifiesError ==
  Returned =>
    /\ result.status \in {"result", "none"}
    /\ result.status = "result" => result.model # "" /\ result.api # ""
    /\ result.status = "none" =>
         /\ result = [NoResult EXCEPT !.status = "none"]
         /\ Len(ErrorEvents) >= 1
         /\ ErrorEvents[Len(ErrorEvents)].kind = "event_exhausted"
         /\ (args.notification_mode \in {"ERROR", "ALL"}
             /\ args.notification_callbacks >= 1)
              => /\ Len(NotifierCalls) >= 1
                 /\ ~NotifierCalls[Len(NotifierCalls)].ok
                 /\ trace[Len(trace)].kind = "notifier"

C20_Witness ==
  /\ Returned
  /\ result.status = "none"
  /\ args.notification_mode = "ERROR"
  /\ args.notification_callbacks = 2
  /\ args.notification_strategy = "SEQUENTIAL"
  /\ Len(DriverCalls) = 2
  /\ Len(ErrorEvents) = 3
  /\ Len(NotifierCalls) = 6

\* the (credential, model) pairs one invocation attempts when it runs alone,
\* from the given loop state on, when its Driver succeeds at attempt number
\* succeeds_at (never, if 0)
RECURSIVE AttemptsAlone(_, _, _, _, _, _)
AttemptsAlone(n, used_api, used_model, api_cursor, model_cursor, succeeds_at) ==
  IF n >= max_attempts
  THEN <<>>
  ELSE LET a == CHOOSE r \in select(args.api_selection_strategy, NumApis,
                                    IF args.enable_failover THEN used_api ELSE {},
                                    api_cursor) : TRUE
           m == CHOOSE r \in select(args.model_selection_strategy, NumModels,
                                    IF args.enable_failover THEN used_model ELSE {},
                                    model_cursor) : TRUE
           used == MarkFailed(used_api, used_model, a.index, m.index)
       IN IF a.index = -1 \/ m.index = -1
          THEN <<>>
          ELSE <<<<a.index, m.index>>>>
               \o (IF n + 1 = succeeds_at \/ ~args.enable_failover
                   THEN <<>>
                   ELSE AttemptsAlone(n + 1, used.api, used.model, a.cursor, m.cursor,
                                      succeeds_at))

\* C21: two generate_image invocations running concurrently share no selector
\* cursor and no exclusion set: under Sequential and RoundRobin strategies and
\* fixed Driver outcomes, the pairs an invocation has attempted are, at every
\* point of every interleaving, the first pairs of the sequence it attempts
\* when it runs alone, and all of that sequence once it has returned.
C21_InvocationsAreIndependent ==
  \A p \in Invocations :
    LET alone == AttemptsAlone(0, {}, {}, 0, 0, drv[p])
    IN /\ Len(trace[p]) <= Len(alone)
       /\ \A k \in 1..Len(trace[p]) : trace[p][k] = alone[k]
       /\ pc[p] = "done" => trace[p] = alone

C21_Witness ==
  /\ args.api_selection_strategy = "ROUND_ROBIN"
  /\ args.model_selection_strategy = "ROUND_ROBIN"
  /\ NumApis = 2 /\ NumModels = 2 /\ args.enable_failover
  /\ pc[1] = "done" /\ pc[2] = "driver"
  /\ drv[1] = 0 /\ drv[2] = 3
  /\ Len(trace[1]) = 4 /\ Len(trace[2]) = 3
  /\ trace[2][2] = <<1, 1>>

\* the calls of the kept log that are of one kind, and those that failed
CallsOf(call) == SelectSeq(drv.log, LAMBDA c : c.call = call)
FailedCalls ==
  SelectSeq(drv.log, LAMBDA c :
    c.outcome \notin {"ok", "SUCCEED", "FAILED", "CANCELED", "TIMEOUT",
                      "PENDING", "PROCESSING", "RUNNING", "QUEUED"})
PendingAnswers ==
  SelectSeq(drv.log, LAMBDA c :
    c.call = "status" /\ c.outcome \in {"PENDING", "PROCESSING", "RUNNING", "QUEUED"})

\* the order of the calls of one attempt: a status check only after a
\* successful submit, a download only after a SUCCEED answer; and the
\* attempt in which no call fails and one status answer is non-terminal
\* returns after one submit, two status checks and one download, with a
\* result that names the resolved model
CallsInOrder ==
  /\ \A k \in 1..Len(drv.log) :
       /\ drv.log[k].call = "status" =>
            \E j \in 1..(k - 1) : drv.log[j] = [call |-> "submit", outcome |-> "ok"]
       /\ drv.log[k].call = "download" =>
            /\ k > 1
            /\ drv.log[k - 1].call = "download"
               \/ drv.log[k - 1] = [call |-> "status", outcome |-> "SUCCEED"]
  /\ (Returned /\ Len(FailedCalls) = 0 /\ Len(PendingAnswers) = 1) =>
       /\ Len(CallsOf("submit")) = 1
       /\ Len(CallsOf("status")) = 2
       /\ Len(CallsOf("download")) = 1
       /\ result.status = "result"
       /\ result.model = "Qwen/Qwen-Image"

\* C22 (as stated): a status check only after a successful submit, a download
\* only after SUCCEED, the scenario submit ok, RUNNING, SUCCEED, download ok
\* makes one submit, two status checks and one download and its result names
\* the resolved model; and every status answer other than SUCCEED, FAILED,
\* CANCELED and TIMEOUT is followed by another status check: the next call is
\* a status check, and the attempt has not ended when it is the last call.
C22_PendingStatusLeadsToStatusCheck ==
  /\ CallsInOrder
  /\ \A k \in 1..Len(drv.log) :
       (drv.log[k].call = "status" /\ drv.log[k].outcome \in NonTerminalStatuses) =>
         IF k < Len(drv.log)
         THEN drv.log[k + 1].call = "status"
         ELSE pc \in {"poll", "status"}

\* C22 (amended): as above, but a status answer other than the four terminal
\* ones leads back to the poll_timeout check: it is followed by another
\* status check unless the attempt ends there because poll_timeout is
\* exceeded.
C22_PendingStatusLeadsToPollCheck ==
  /\ CallsInOrder
  /\ \A k \in 1..Len(drv.log) :
       (drv.log[k].call = "status" /\ drv.log[k].outcome \in NonTerminalStatuses) =>
         IF k < Len(drv.log)
         THEN drv.log[k + 1].call = "status"
         ELSE \/ pc \in {"poll", "status"}
              \/ pc = "failed" /\ drv.reason = "poll_timeout"

C22_Witness ==
  /\ Returned
  /\ drv.log = <<[call |-> "submit", outcome |-> "ok"],
                 [call |-> "status", outcome |-> "RUNNING"],
                 [call |-> "status", outcome |-> "SUCCEED"],
                 [call |-> "download", outcome |-> "ok"]>>
  /\ result.model = "Qwen/Qwen-Image"

\* C23: _parse_api_configs returns a one-element list for a single key string
\* or a single APIConfig; for a list of strings and APIConfigs it returns a
\* list of the same length and order in which each string has become a
\* credential with that key and each APIConfig is the element itself; an
\* argument or a list element of another type raises ValidationError.
C23_ParseApiConfigs ==
  pc \in {"parse_models", "parsed", "raised"} =>
    LET api_configs == args.api_configs
        well_typed(v) == v.type \in {"str", "APIConfig"}
    IN CASE api_configs.type = "str" ->
              /\ pc # "raised"
              /\ Len(result.api) = 1
              /\ result.api[1].type = "APIConfig"
              /\ result.api[1].api_key = api_configs.str
         [] api_configs.type = "APIConfig" ->
              pc # "raised" /\ result.api = <<api_configs>>
         [] api_configs.type = "list"
            /\ \A k \in 1..Len(api_configs.items) : well_typed(api_configs.items[k]) ->
              /\ pc # "raised"
              /\ Len(result.api) = Len(api_configs.items)
              /\ \A k \in 1..Len(api_configs.items) :
                   IF api_configs.items[k].type = "str"
                   THEN /\ result.api[k].type = "APIConfig"
                        /\ result.api[k].api_key = api_configs.items[k].str
                   ELSE result.api[k] = api_configs.items[k]
         [] OTHER ->
              pc = "raised" /\ result.status = "ValidationError"

C23_Witness ==
  /\ pc = "parsed"
  /\ args.api_configs.type = "list"
  /\ Len(args.api_configs.items) = 3
  /\ args.api_configs.items[1].type = "str"
  /\ args.api_configs.items[2].type = "APIConfig"
  /\ result.api[1].api_key = "k0"
  /\ result.api[2].name = "api-a"
  /\ result.api[3].api_key = "k1"

\* C24: _parse_models treats a single string as a one-element list and maps
\* each entry to the canonical identifier when it is a key of the preset
\* table and to itself otherwise, keeping length and order; applied to its own
\* output it returns that output.
C24_ParseModels ==
  pc = "parsed" =>
    LET models == IF args.models.type = "str"
                  THEN <<args.models.str>> ELSE args.models.items
    IN /\ Len(result.model) = Len(models)
       /\ \A k \in 1..Len(models) :
            CASE models[k] = "qwen" -> result.model[k] = "Qwen/Qwen-Image"
              [] models[k] = "flux-majic" -> result.model[k] = "MAILAND/majicflus_v1"
              [] OTHER -> result.model[k] = models[k]
       /\ _parse_models_argument(ListValue(result.model)) = result.model
       /\ \A m \in DOMAIN MODEL_PRESETS : MODEL_PRESETS[m] \notin DOMAIN MODEL_PRESETS

C24_Witness ==
  /\ pc = "parsed"
  /\ args.models.type = "list"
  /\ args.models.items = <<"flux-majic", "Custom/Model">>
  /\ result.model = <<"MAILAND/majicflus_v1", "Custom/Model">>

\* C25 (as stated): during one generate_image call both ExclusionSets start
\* empty and no step removes an index from either of them.
C25_ExclusionSetsOnlyGrow ==
  /\ (used_api_indices = {} /\ used_model_indices = {})
  /\ [][/\ used_api_indices \subseteq used_api_indices'
        /\ used_model_indices \subseteq used_model_indices']_vars

\* C25 (amended): both ExclusionSets start empty; no step removes an index
\* from the credential set; a step removes indices from the model set only
\* by clearing it, which happens exactly in the steps that add an index to
\* the credential set.
C25_OnlyTheModelSetIsCleared ==
  /\ (used_api_indices = {} /\ used_model_indices = {})
  /\ [][/\ used_api_indices \subseteq used_api_indices'
        /\ IF used_api_indices' # used_api_indices
           THEN used_model_indices' = {}
           ELSE used_model_indices \subseteq used_model_indices']_vars

C25_Witness ==
  /\ NumApis = 2 /\ NumModels = 2
  /\ pc = "select"
  /\ Len(DriverCalls) = 4
  /\ used_api_indices = {0, 1}
  /\ used_model_indices = {}

\* C26: in every step of the orchestrator loop that invokes the Driver after
\* a failed attempt, the credential differs from the credential of the failed
\* attempt if and only if the model ExclusionSet has been cleared after that
\* failure (after a failure with failover the set is empty only when it has
\* just been cleared, otherwise it holds the failed model).
C26_ClearedIffCredentialChanges ==
  [][(pc = "select" /\ pc' = "submit" /\ attempt >= 1)
       => ((api_index' # api_index) <=> (used_model_indices = {}))]_vars

\* C27: a credential index is in the credential ExclusionSet only when every
\* model has been tried under that credential and has failed: for every
\* excluded credential and every model, some Driver invocation used that
\* pair and returned a failure.
C27_ExcludedCredentialHasTriedAllModels ==
  \A a \in used_api_indices :
    \A m \in 0..(NumModels - 1) :
      \E k \in 1..Len(DriverReturns) :
        /\ DriverCalls[k].i = a /\ DriverCalls[k].j = m
        /\ ~DriverReturns[k].ok

\* the number of failed calls of one kind in a row that end at call k of the
\* kept log: the failures of one retry sub-loop up to that call
RECURSIVE FailuresInARow(_)
FailuresInARow(k) ==
  IF k > 1 /\ drv.log[k - 1].call = drv.log[k].call
     /\ drv.log[k - 1].outcome \in {"network_error", "http_error", "not_json", "undecodable"}
  THEN 1 + FailuresInARow(k - 1)
  ELSE 1

\* after call k of the kept log the same call is issued again
RetriedAfter(k) ==
  IF k < Len(drv.log)
  THEN drv.log[k + 1].call = drv.log[k].call
  ELSE pc = drv.log[k].call

\* call k of the kept log was the last one of the attempt, which failed
TerminalAt(k) == k = Len(drv.log) /\ pc = "failed"

\* the failure of call k is retried until the sub-loop has made
\* max_retries + 1 calls
RetriedUpToMaxRetries(k) ==
  /\ FailuresInARow(k) <= args.max_retries + 1
  /\ IF FailuresInARow(k) < args.max_retries + 1
     THEN RetriedAfter(k)
     ELSE TerminalAt(k)

C29_NoStatusCheckAfterTerminalStatus ==
  \A k \in 1..Len(drv.log) :
    /\ (drv.log[k].call = "status"
        /\ drv.log[k].outcome \in {"SUCCEED", "SUCCEED_no_images", "FAILED",
                                   "CANCELED", "TIMEOUT"})
         => /\ \A j \in (k + 1)..Len(drv.log) : drv.log[j].call = "download"
            /\ pc \notin {"poll", "status"}
    /\ (drv.log[k].call = "status"
        /\ drv.log[k].outcome \in {"FAILED", "CANCELED", "TIMEOUT"})
         => TerminalAt(k)

C29_Witness ==
  /\ args.max_retries = 1
  /\ pc = "failed"
  /\ drv.reason = "download_failed"
  /\ drv.log = <<[call |-> "submit", outcome |-> "ok"],
                 [call |-> "status", outcome |-> "SUCCEED"],
                 [call |-> "download", outcome |-> "network_error"],
                 [call |-> "download", outcome |-> "undecodable"]>>

\* the cursor of the Selector after its k-th call
CursorAfter(k) ==
  IF k = Len(SelectCalls) THEN api_selector ELSE SelectCalls[k + 1].round_robin_index

\* C30: under ROUND_ROBIN, with a cursor c in 0..len-1 and at least one index
\* not excluded, select returns the first index of c, c+1, ..., c+len-1
\* (mod len) that is not excluded, and the cursor is afterwards the returned
\* index plus one, mod len.
C30_RoundRobinFirstOfCyclicScan ==
  args.api_selection_strategy = "ROUND_ROBIN" =>
    \A k \in 1..Len(SelectCalls) :
      LET c == SelectCalls[k].round_robin_index
          used == SelectCalls[k].used_indices
          Steps == {d \in 0..(NumApis - 1) : (c + d) % NumApis \notin used}
      IN (NumApis >= 1 /\ Steps # {})
           => /\ c \in 0..(NumApis - 1)
              /\ SelectCalls[k].index = (c + Min(Steps)) % NumApis
              /\ CursorAfter(k) = (SelectCalls[k].index + 1) % NumApis

C30_Witness ==
  /\ args.api_selection_strategy = "ROUND_ROBIN"
  /\ NumApis = 2
  /\ Len(SelectCalls) = 2
  /\ SelectCalls[1].round_robin_index = 0
  /\ SelectCalls[1].used_indices = {0}
  /\ SelectCalls[1].index = 1
  /\ SelectCalls[2].round_robin_index = 0
  /\ SelectCalls[2].used_indices = {1}
  /\ SelectCalls[2].index = 0
  /\ api_selector = 1

\* C31: select changes nothing but the ROUND_ROBIN cursor: the resource list
\* and the used_indices passed in are after the call what they were before
\* it, under SEQUENTIAL and RANDOM the cursor is left as it was, and under
\* ROUND_ROBIN the cursor is left as it was when select returns (None, -1).
C31_SelectChangesOnlyTheCursor ==
  /\ args.api_configs = Prefix(ApiNames, NumApis)
  /\ Len(SelectCalls) > 0 =>
       used_api_indices = SelectCalls[Len(SelectCalls)].used_indices
  /\ \A k \in 1..Len(SelectCalls) :
       (\/ args.api_selection_strategy \in {"SEQUENTIAL", "RANDOM"}
        \/ SelectCalls[k].index = -1)
         => CursorAfter(k) = SelectCalls[k].round_robin_index

C31_Witness ==
  /\ args.api_selection_strategy = "ROUND_ROBIN"
  /\ NumApis = 2
  /\ Len(SelectCalls) = 2
  /\ SelectCalls[1].used_indices = {} /\ SelectCalls[1].index = 0
  /\ SelectCalls[2].round_robin_index = 1
  /\ SelectCalls[2].used_indices = {0, 1}
  /\ SelectCalls[2].index = -1
  /\ api_selector = 1

\* the calls of upload_manager.upload so far: at most one, made in the
\* success branch just before the success event
UploadCalled ==
  /\ args.upload_on_success
  /\ args.image_upload_callbacks > 0
  /\ Len(OfKind("event_success")) > 0

\* C32: under the RANDOM and ROUND_ROBIN upload strategies one upload call
\* with a non-empty Uploader list invokes exactly one Uploader, and when that
\* one raises or returns an empty URL the call returns None: no other
\* Uploader is tried and the result carries no URL.
C32_SingleUploadInvokesOneUploader ==
  (UploadCalled /\ args.upload_strategy \in {"RANDOM", "ROUND_ROBIN"}) =>
    /\ Len(UploaderCalls) = 1
    /\ UploaderCalls[1].i \in 0..(args.image_upload_callbacks - 1)
    /\ ~UploaderCalls[1].ok =>
         /\ OfKind("event_success")[1].url = "None"
         /\ pc = "done" => result.url = "None"
    /\ UploaderCalls[1].ok =>
         OfKind("event_success")[1].url = Url(UploaderCalls[1].i)

C32_Witness ==
  /\ args.upload_strategy = "RANDOM"
  /\ args.image_upload_callbacks = 3
  /\ pc = "done"
  /\ Len(UploaderCalls) = 1
  /\ UploaderCalls[1].i = 1
  /\ UploaderCalls[1].j = 1
  /\ result.status = "result"
  /\ result.url = "None"

\* the positions in the trace of the events handed to the notification
\* fan-out, and of those among them that the notification mode permits
EventPositions == {q \in 1..Len(trace) : trace[q].kind \notin {"driver", "driver_return", "notifier", "uploader"}}

PermittedEvents ==
  {q \in EventPositions :
     /\ args.notification_callbacks > 0
     /\ \/ args.notification_mode = "ALL"
        \/ args.notification_mode = "SUCCESS" /\ trace[q].ok
        \/ args.notification_mode = "ERROR" /\ ~trace[q].ok}

\* the Notifiers invoked for the event at position q, in order
InvokedFor(q) ==
  LET end == CHOOSE e \in (q + 1)..(Len(trace) + 1) :
               /\ \A r \in (q + 1)..(e - 1) : trace[r].kind = "notifier"
               /\ e <= Len(trace) => trace[e].kind # "notifier"
  IN [k \in 1..(end - q - 1) |-> trace[q + k].i]

\* C33: for an event that the notification mode permits, SEQUENTIAL invokes
\* every configured Notifier once, in list order, whichever of them raise;
\* RANDOM and ROUND_ROBIN invoke exactly one Notifier per event; and with
\* ROUND_ROBIN the k-th permitted event of the call goes to Notifier
\* (k - 1) mod the number of Notifiers.
C33_NotifierFanOutPerStrategy ==
  /\ \A q \in PermittedEvents :
       /\ args.notification_strategy = "SEQUENTIAL" =>
            InvokedFor(q) = [k \in 1..args.notification_callbacks |-> k - 1]
       /\ args.notification_strategy \in {"RANDOM", "ROUND_ROBIN"} =>
            /\ Len(InvokedFor(q)) = 1
            /\ InvokedFor(q)[1] \in 0..(args.notification_callbacks - 1)
  /\ \A q \in EventPositions \ PermittedEvents : InvokedFor(q) = <<>>
  /\ (args.notification_strategy = "ROUND_ROBIN" /\ args.notification_callbacks > 0) =>
       /\ Len(NotifierCalls) = Cardinality(PermittedEvents)
       /\ \A k \in 1..Len(NotifierCalls) :
            NotifierCalls[k].i = (k - 1) % args.notification_callbacks

C33_Witness ==
  /\ args.notification_strategy = "ROUND_ROBIN"
  /\ args.notification_mode = "ALL"
  /\ args.notification_callbacks = 2
  /\ notifier_raised
  /\ pc = "done"
  /\ result.status = "none"
  /\ Len(NotifierCalls) = 5
  /\ NotifierCalls[4].i = 1
  /\ NotifierCalls[5].i = 0

\* C34: an Uploader is invoked only after a Driver attempt of this call has
\* succeeded, and only with upload_on_success set and at least one Uploader
\* configured; the upload fan-out runs at most once per call (the Uploader
\* invocations all follow the one successful return of the Driver, each
\* Uploader at most once); and a call that returns None has invoked none.
C34_UploadOnlyAfterSuccessAtMostOnce ==
  /\ \A p \in 1..Len(trace) :
       trace[p].kind = "uploader" =>
         /\ args.upload_on_success
         /\ args.image_upload_callbacks > 0
         /\ \E q \in 1..(p - 1) :
              /\ trace[q].kind = "driver_return" /\ trace[q].ok
              /\ \A r \in (q + 1)..p : trace[r].kind = "uploader"
  /\ Cardinality({q \in 1..Len(trace) : trace[q].kind = "driver_return" /\ trace[q].ok}) <= 1
  /\ \A k, l \in 1..Len(UploaderCalls) : UploaderCalls[k].i = UploaderCalls[l].i => k = l
  /\ result.status = "none" => Len(UploaderCalls) = 0
  /\ (pc \in {"start", "select", "submit", "poll", "status", "download", "succeeded",
              "failed", "exhausted"}) => Len(UploaderCalls) = 0

C34_Witness ==
  /\ args.upload_on_success
  /\ args.upload_strategy = "SEQUENTIAL"
  /\ args.image_upload_callbacks = 2
  /\ pc = "done"
  /\ result.status = "result"
  /\ Len(DriverCalls) = 2
  /\ Len(UploaderCalls) = 2
  /\ result.url = "u2"

\* C35: with failover enabled, generate_image never returns None while a
\* (credential, model) combination was left untried, whatever the two
\* selection strategies are: a combination on which the Driver would
\* succeed is therefore reached before the call gives up.
C35_NoneOnlyAfterEveryCombination ==
  (args.enable_failover /\ Returned /\ result.status = "none")
    => UntriedCombinations = {}

\* C36: with failover enabled and M >= 1 models, at the head of every
\* iteration of the loop the number of Driver attempts that have failed so
\* far is |used_api_indices| * M + |used_model_indices|, and
\* |used_model_indices| < M.
C36_FailuresCountedByExclusionSets ==
  (args.enable_failover /\ NumModels >= 1 /\ pc = "select") =>
    /\ \A k \in 1..Len(DriverReturns) : ~DriverReturns[k].ok
    /\ Len(DriverReturns) = Len(DriverCalls)
    /\ Len(DriverReturns)
         = Cardinality(used_api_indices) * NumModels + Cardinality(used_model_indices)
    /\ Cardinality(used_model_indices) < NumModels

C36_Witness ==
  /\ args.enable_failover
  /\ args.api_selection_strategy = "RANDOM"
  /\ args.model_selection_strategy = "ROUND_ROBIN"
  /\ NumApis = 2 /\ NumModels = 2
  /\ pc = "select"
  /\ Len(DriverReturns) = 3
  /\ used_api_indices = {1}
  /\ used_model_indices = {0}

\* C37: with failover enabled and the SEQUENTIAL strategy for credentials and
\* for models, the k-th pair passed to the Driver is the k-th pair of the
\* lexicographic order (0,0), (0,1), ..., (0,M-1), (1,0), ..., (N-1,M-1),
\* and the Driver is not invoked again after an attempt that succeeded.
C37_SequentialOrderIsLexicographic ==
  (/\ args.enable_failover
   /\ args.api_selection_strategy = "SEQUENTIAL"
   /\ args.model_selection_strategy = "SEQUENTIAL") =>
    /\ \A k \in 1..Len(DriverCalls) :
         /\ DriverCalls[k].i = (k - 1) \div NumModels
         /\ DriverCalls[k].j = (k - 1) % NumModels
    /\ \A k \in 1..Len(DriverReturns) :
         DriverReturns[k].ok => k = Len(DriverCalls)
    /\ (Returned /\ result.status = "none") => Len(DriverCalls) = NumApis * NumModels

C37_Witness ==
  /\ args.enable_failover
  /\ args.api_selection_strategy = "SEQUENTIAL"
  /\ args.model_selection_strategy = "SEQUENTIAL"
  /\ NumApis = 2 /\ NumModels = 2
  /\ Returned
  /\ result.status = "result"
  /\ Len(DriverCalls) = 3
  /\ DriverCalls[3].i = 1 /\ DriverCalls[3].j = 0

\* the kinds of the events handed to the notification fan-out, in order
EventKinds ==
  LET events == SelectSeq(trace, LAMBDA e : e.kind \notin {"driver", "driver_return",
                                                          "notifier", "uploader"})
  IN [k \in 1..Len(events) |-> events[k].kind]

\* (start event, per-attempt failure event) repeated, and nothing else
IsAttemptPairs(kinds) ==
  /\ Len(kinds) % 2 = 0
  /\ \A p \in 1..Len(kinds) :
       kinds[p] = IF p % 2 = 1 THEN "event_start" ELSE "event_attempt_failed"

\* the is_success flag of every event: true for the start and success events,
\* false for the others
EventFlags ==
  \A q \in EventPositions : trace[q].ok <=> trace[q].kind \in {"event_start", "event_success"}

\* every Driver invocation comes right after the dispatch of one start event,
\* and every start event dispatched is followed by a Driver invocation
DriverFollowsStart ==
  /\ \A p \in 1..Len(trace) :
       trace[p].kind = "driver" =>
         \E q \in 1..(p - 1) :
           /\ trace[q].kind = "event_start"
           /\ \A r \in (q + 1)..(p - 1) : trace[r].kind = "notifier"
  /\ Len(OfKind("event_start")) = Len(DriverCalls)

\* the events of a call that returned a result
EndsInSuccess ==
  /\ Len(EventKinds) >= 2
  /\ IsAttemptPairs(SubSeq(EventKinds, 1, Len(EventKinds) - 2))
  /\ EventKinds[Len(EventKinds) - 1] = "event_start"
  /\ EventKinds[Len(EventKinds)] = "event_success"
  /\ Len(EventKinds) = 2 * Len(DriverCalls)

\* the events of a call that returned None after its last attempt failed
EndsInFinalFailure ==
  /\ Len(EventKinds) >= 1
  /\ IsAttemptPairs(SubSeq(EventKinds, 1, Len(EventKinds) - 1))
  /\ EventKinds[Len(EventKinds)] = "event_exhausted"
  /\ Len(EventKinds) = 2 * Len(DriverCalls) + 1

\* C38 (as stated): the events of a call are (start event, per-attempt
\* failure event) once per failed Driver attempt, followed by a start event
\* and one success event when a result is returned, or by one final failure
\* event when None is returned; start and success events carry is_success =
\* true, the failure events false; and every Driver invocation is immediately
\* preceded by exactly one start event.
C38_EventSequence ==
  /\ EventFlags
  /\ DriverFollowsStart
  /\ (Returned /\ result.status = "result") => EndsInSuccess
  /\ (Returned /\ result.status = "none") => EndsInFinalFailure

\* C38 (amended): as stated, except that a call whose selection finds no
\* resource dispatches a no-resource failure event and then the final
\* failure event, with no start event and no Driver invocation; this happens
\* exactly when failover is disabled and the credential list or the model
\* list is empty.
C38_EventSequenceOrNoResource ==
  /\ EventFlags
  /\ DriverFollowsStart
  /\ (Returned /\ result.status = "result") => EndsInSuccess
  /\ (Returned /\ result.status = "none") =>
       IF ~args.enable_failover /\ (NumApis = 0 \/ NumModels = 0)
       THEN EventKinds = <<"event_no_resource", "event_exhausted">> /\ DriverCalls = <<>>
       ELSE EndsInFinalFailure

C38_Witness ==
  /\ ~args.enable_failover
  /\ NumApis = 1 /\ NumModels = 0
  /\ Returned
  /\ result.status = "none"
  /\ EventKinds = <<"event_no_resource", "event_exhausted">>

\* C39: on a successful Driver attempt the upload fan-out is over before the
\* success event is dispatched: every Uploader invocation of the call comes
\* before the success event and before every Notifier invocation made for
\* it, and the data of the success event carries the url of the returned
\* result (the URL the upload fan-out returned, or None).
C39_UploadBeforeSuccessEvent ==
  /\ \A p, q \in 1..Len(trace) :
       (/\ trace[p].kind = "uploader"
        /\ \/ trace[q].kind = "event_success"
           \/ trace[q].kind = "notifier" /\ EventOf(q) = "event_success")
         => p < q
  /\ Len(OfKind("event_success")) <= 1
  /\ (Returned /\ result.status = "result") =>
       /\ Len(OfKind("event_success")) = 1
       /\ OfKind("event_success")[1].url = result.url
       /\ \A q \in 1..Len(trace) :
            (trace[q].kind = "notifier" /\ EventOf(q) = "event_success")
              => trace[q].url = result.url
       /\ result.url # "None" =>
            /\ Len(UploaderCalls) >= 1
            /\ UploaderCalls[Len(UploaderCalls)].url = result.url

C39_Witness ==
  /\ args.image_upload_callbacks = 2
  /\ args.notification_callbacks = 1
  /\ Returned
  /\ result.status = "result"
  /\ result.url = "u2"
  /\ Len(UploaderCalls) = 2
  /\ Len(NotifierCalls) >= 1
  /\ NotifierCalls[Len(NotifierCalls)].url = "u2"
  /\ trace[Len(trace)].kind = "notifier"

\* C40: every generate_image call terminates.  As long as each network call
\* and each callback returns and the wall clock advances, every Driver
\* attempt ends (the poll_timeout check cuts off a task whose status stays
\* non-terminal), the loop begins at most max_attempts iterations, and the
\* call returns or raises.
C40_EveryCallTerminates ==
  /\ [](attempt <= max_attempts)
  /\ (pc \in {"submit", "poll", "status", "download"})
       ~> (pc \in {"succeeded", "failed", "raised"})
  /\ <>(pc \in {"done", "raised"})

C40_Witness ==
  /\ args.enable_failover
  /\ max_attempts = 2
  /\ attempt = 2
  /\ pc = "failed"
  /\ drv.reason = "poll_timeout"

====
